---- MODULE Spec2Model ----
(***************************************************************************)
(* Model of the OD / flow reconciliation engine of                         *)
(* 02basedata_process/od_analysis/detailed_correlation_analysis.py         *)
(* (class DetailedCorrelationAnalyzer), of its test on generated data      *)
(* (test_detailed_correlation.py) and of ODDataAnalyzer.run_full_analysis  *)
(* (od_data_analysis.py).                                                  *)
(*                                                                         *)
(* A DataFrame is a set of row records, a nullable cell is a tuple of      *)
(* length 0 (NaN / None) or 1, a float64 value is a reduced fraction       *)
(* <<n, d>> with d >= 0 where <<1,0>> is +inf, <<-1,0>> is -inf and        *)
(* <<0,0>> is NaN, and a Python dict is a function from its keys.          *)
(***************************************************************************)
EXTENDS Integers, Sequences, FiniteSets, TLC

VARIABLES
    od_data,            \* self.od_data after _process_od_data (set of rows)
    gantry_flow_data,   \* self.gantry_flow_data
    onramp_flow_data,   \* self.onramp_flow_data
    offramp_flow_data,  \* self.offramp_flow_data
    last_call,          \* the method that returned last
    correlation_data,   \* local correlation_data of the facet analysis (merge output)
    valid_data,         \* local valid_data of _calculate_detailed_stats
    flow_stats,         \* argument flow_stats of _calculate_transit_flow
    origin_stats,       \* argument origin_stats of _calculate_transit_flow
    destination_stats,  \* argument destination_stats of _calculate_transit_flow
    combined_data,      \* local combined_data of _calculate_transit_flow
    analysis_type,      \* argument analysis_type of _calculate_detailed_stats
    result,             \* the value returned by the last call
    main_locals,        \* the result variables main() has bound so far
    random_state,       \* the draws seen from numpy's RandomState(42): <<population, size>> -> positions
    seen_result,        \* the first stage called on the loaded analyzer and what it returned
    toll_flow_data,     \* self.toll_flow_data of ODDataAnalyzer
    od_columns          \* the columns the stages of ODDataAnalyzer have added to self.od_data

vars == <<od_data, gantry_flow_data, onramp_flow_data, offramp_flow_data,
          last_call, correlation_data, valid_data, flow_stats, origin_stats,
          destination_stats, combined_data, analysis_type, result, main_locals,
          random_state, seen_result,
                   toll_flow_data, od_columns>>

----------------------------------------------------------------------------
(* Bounds of the model                                                     *)

MaxTrips == 2
MaxFlowRows == 2
MaxStatRows == 2
MaxFlowStatRows == 2
MaxOdStatRows == 1
MaxSampleRows == 12

----------------------------------------------------------------------------
(* Nullable cells and float64 values                                       *)

None == <<>>
Some(v) == <<v>>
notna(c) == c # None
Val(c) == c[1]

\* an empty DataFrame
NoFrame == {}

\* the calendar day of the run (yyyymmdd)
Dates == {20250707}
TheDate == CHOOSE d \in Dates : TRUE

NaN == <<0, 0>>
Inf == <<1, 0>>

Abs(x) == IF x < 0 THEN -x ELSE x
Sign(x) == IF x < 0 THEN -1 ELSE IF x > 0 THEN 1 ELSE 0

RECURSIVE Gcd(_, _)
Gcd(a, b) == IF b = 0 THEN a ELSE Gcd(b, a % b)

\* the float n/d as a reduced fraction; x/0 is +-inf and 0/0 is NaN (numpy)
Flt(n, d) ==
    IF d = 0 THEN <<Sign(n), 0>>
    ELSE LET g == Gcd(Abs(n), Abs(d))
             s == IF d < 0 THEN -1 ELSE 1
         IN  <<(s * n) \div g, (s * d) \div g>>

IsNaN(x) == x = NaN
IsFinite(x) == x[2] # 0

\* Series / Series of two numeric columns; a NaN operand gives NaN
TrueDiv(a, b) ==
    IF a = None \/ b = None THEN NaN ELSE Flt(Val(a), Val(b))

FAdd(x, y) ==
    IF IsNaN(x) \/ IsNaN(y) THEN NaN
    ELSE IF x[2] = 0 /\ y[2] = 0 THEN (IF x[1] = y[1] THEN x ELSE NaN)
    ELSE IF x[2] = 0 THEN x
    ELSE IF y[2] = 0 THEN y
    ELSE Flt(x[1] * y[2] + y[1] * x[2], x[2] * y[2])

FDivN(x, k) == IF x[2] = 0 THEN x ELSE Flt(x[1], x[2] * k)

FMul(x, y) == Flt(x[1] * y[1], x[2] * y[2])

\* comparisons of floats: every comparison with NaN is False
FLe(x, y) ==
    /\ ~IsNaN(x)
    /\ ~IsNaN(y)
    /\ IF x[2] = 0 /\ y[2] = 0 THEN x[1] <= y[1]
       ELSE x[1] * y[2] <= y[1] * x[2]
FLt(x, y) == FLe(x, y) /\ x # y
FGt(x, y) == FLt(y, x)

\* the literals of the source
Lit_0_5 == Flt(5, 10)
Lit_0_8 == Flt(8, 10)
Lit_1_2 == Flt(12, 10)

----------------------------------------------------------------------------
(* Series statistics (pandas skips NaN: skipna=True)                       *)
(* A series is a function from the rows of its frame to floats.            *)

NotNaRows(s) == {r \in DOMAIN s : ~IsNaN(s[r])}

RECURSIVE SumOver(_, _)
SumOver(s, D) ==
    IF D = {} THEN <<0, 1>>
    ELSE LET r == CHOOSE r \in D : TRUE
         IN  FAdd(s[r], SumOver(s, D \ {r}))

SeriesMean(s) ==
    LET D == NotNaRows(s)
    IN  IF D = {} THEN NaN ELSE FDivN(SumOver(s, D), Cardinality(D))

SeriesMin(s) ==
    LET D == NotNaRows(s)
    IN  IF D = {} THEN NaN
        ELSE CHOOSE v \in {s[r] : r \in D} : \A r \in D : FLe(v, s[r])

SeriesMax(s) ==
    LET D == NotNaRows(s)
    IN  IF D = {} THEN NaN
        ELSE CHOOSE v \in {s[r] : r \in D} : \A r \in D : FLe(s[r], v)

\* the k-th smallest value of the non-NaN part (k from 1)
KthSmallest(s, k) ==
    LET D == NotNaRows(s)
    IN  CHOOSE v \in {s[r] : r \in D} :
            /\ Cardinality({r \in D : FLt(s[r], v)}) < k
            /\ k <= Cardinality({r \in D : FLe(s[r], v)})

SeriesMedian(s) ==
    LET n == Cardinality(NotNaRows(s))
    IN  IF n = 0 THEN NaN
        ELSE IF n % 2 = 1 THEN KthSmallest(s, (n + 1) \div 2)
        ELSE FDivN(FAdd(KthSmallest(s, n \div 2), KthSmallest(s, n \div 2 + 1)), 2)

----------------------------------------------------------------------------
(* _calculate_detailed_stats                                               *)
(* A row of correlation_data has the columns of the merge:                 *)
(*   code (station_code / square_code), od_date, od_hour, od_count,        *)
(*   od_vehicle_dist, flow_total, flow_k, flow_h, flow_t                   *)
(* where the flow columns are NaN (None) on a row without a flow match.    *)

AnalysisTypes ==
    {"gantry_origin", "gantry_destination", "toll_square_entry", "toll_square_exit"}

\* 'toll_square' in analysis_type
IsTollSquareType(atype) ==
    atype \in {"toll_square_entry", "toll_square_exit"}

\* faulty variant: the bounds of the normal band taken as strict
data_quality_flag_strict(x) ==
    IF FLt(Lit_0_8, x) /\ FLt(x, Lit_1_2) THEN "normal" ELSE "abnormal"

\* lambda x: 'normal' if 0.8 <= x <= 1.2 else 'abnormal'
data_quality_flag(x) ==
    IF FLe(Lit_0_8, x) /\ FLe(x, Lit_1_2) THEN "normal" ELSE "abnormal"

\* faulty variant: the flag applied to flow_od_ratio
QualityFlagColumn_flow_od(row) == row.flow_od_ratio

\* the column the quality flag is applied to
QualityFlagColumn(row) == row.od_flow_ratio

\* the rows kept for the statistics
IsValidRow(r) == notna(r.flow_total)

\* faulty variant: numerator and denominator exchanged
od_flow_ratio_swapped(r) == TrueDiv(r.flow_total, Some(r.od_count))

od_flow_ratio(r) == TrueDiv(Some(r.od_count), r.flow_total)
flow_od_ratio(r) == TrueDiv(r.flow_total, Some(r.od_count))

\* valid_data with its ratio columns (and the flag column for toll squares)
ValidData(cd, atype) ==
    LET ratios(r) == r @@ [od_flow_ratio |-> od_flow_ratio(r),
                           flow_od_ratio |-> flow_od_ratio(r)]
        flagged(r) == r @@ [data_quality_flag |-> data_quality_flag(QualityFlagColumn(r))]
    IN  IF IsTollSquareType(atype)
        THEN {flagged(ratios(r)) : r \in {x \in cd : IsValidRow(x)}}
        ELSE {ratios(r) : r \in {x \in cd : IsValidRow(x)}}

\* Series.corr (Pearson): NaN with fewer than two rows or a constant column;
\* the value itself (a square root) is kept abstract
Corr(vd) ==
    IF \/ Cardinality(vd) < 2
       \/ Cardinality({r.od_count : r \in vd}) < 2
       \/ Cardinality({r.flow_total : r \in vd}) < 2
    THEN "nan" ELSE "finite"

\* mean / median / min / max of one column; std, q25 and q75 are taken over
\* the same series (their values need a square root or an interpolation)
RatioStats(s) ==
    [mean |-> SeriesMean(s), median |-> SeriesMedian(s),
     min |-> SeriesMin(s), max |-> SeriesMax(s)]

CountFlag(vd, flag) == Cardinality({r \in vd : r.data_quality_flag = flag})

MinOf(S) == CHOOSE x \in S : \A y \in S : x <= y
MaxOf(S) == CHOOSE x \in S : \A y \in S : y <= x

EmptyDict == <<>>

\* a call that ended in an exception of class err instead of a return value
Raised(err) == [raised |-> err]
IsRaised(r) == "raised" \in DOMAIN r

\* 'col' in frame.columns
HasColumn(frame, col) == \E r \in frame : col \in DOMAIN r

\* stats['vehicle_ratio_comparison'], built when valid_data has a truck_ratio
\* column; the ratio columns are added to correlation_data after valid_data
\* was copied from it
VehicleRatioComparison(vd) ==
    [od_truck_ratio_mean |-> SeriesMean([r \in vd |-> r.truck_ratio]),
     flow_truck_ratio_mean |-> SeriesMean([r \in vd |-> r.flow_truck_ratio]),
     truck_ratio_diff_mean |-> SeriesMean([r \in vd |-> r.truck_ratio_diff]),
     od_passenger_ratio_mean |-> SeriesMean([r \in vd |-> r.passenger_ratio]),
     flow_passenger_ratio_mean |-> SeriesMean([r \in vd |-> r.flow_passenger_ratio]),
     passenger_ratio_diff_mean |-> SeriesMean([r \in vd |-> r.passenger_ratio_diff])]

SummaryOf(cd, vd, atype) ==
    LET
        base ==
            [total_records |-> Cardinality(vd),
             total_od_records |-> Cardinality(cd),
             unique_locations |-> Cardinality({r.code : r \in vd}),
             date_range |-> [start |-> MinOf({r.od_date : r \in vd}),
                             end |-> MaxOf({r.od_date : r \in vd})],
             correlation_coefficient |-> Corr(vd),
             od_flow_ratio_stats |-> RatioStats([r \in vd |-> r.od_flow_ratio]),
             flow_od_ratio_stats |-> RatioStats([r \in vd |-> r.flow_od_ratio])]
        quality ==
            [data_quality_assessment |->
                [normal_records |-> CountFlag(vd, "normal"),
                 abnormal_records |-> CountFlag(vd, "abnormal"),
                 normal_ratio |-> Flt(CountFlag(vd, "normal"), Cardinality(vd))]]
        comparison ==
            IF HasColumn(vd, "truck_ratio")
            THEN [vehicle_ratio_comparison |-> VehicleRatioComparison(vd)]
            ELSE EmptyDict
    IN  IF vd = {} THEN EmptyDict
        ELSE IF IsTollSquareType(atype) THEN comparison @@ quality @@ base
        ELSE comparison @@ base

\* faulty variant: no early return, the statistics of an empty valid_data
_calculate_detailed_stats_unguarded(cd, atype) ==
    IF ValidData(cd, atype) = {}
    THEN [total_records |-> 0,
          total_od_records |-> Cardinality(cd),
          od_flow_ratio_stats |-> RatioStats(<<>>),
          flow_od_ratio_stats |-> RatioStats(<<>>)]
    ELSE SummaryOf(cd, ValidData(cd, atype), atype)

_calculate_detailed_stats(cd, atype) == SummaryOf(cd, ValidData(cd, atype), atype)

----------------------------------------------------------------------------
(* Transit-flow estimation: _calculate_transit_flow and                    *)
(* _classify_gantry_function                                               *)

Key(r) == <<r.gantry_code, r.date, r.hour>>

\* pd.merge(combined_data, stats, on=['gantry_code','date','hour'], how='left')
\* followed by fillna(0) of the count column: the counts of the matching rows
\* of stats, or 0 for a left row without a match
CountsFor(stats, r) ==
    LET hits == {x \in stats : Key(x) = Key(r)}
    IN  IF hits = {} THEN {0} ELSE {x.od_count : x \in hits}

\* Series.clip(lower=0)
ClipLower0(x) == IF x < 0 THEN 0 ELSE x

od_related_flow(o, d) == o + d

\* faulty variant: the difference left unclipped
transit_flow_unclipped(total_flow, related) == total_flow - related

transit_flow(total_flow, related) == ClipLower0(total_flow - related)

\* faulty variant: od_ratio clamped to at most 1
od_ratio_clamped(related, total_flow) ==
    IF related > total_flow /\ total_flow > 0 THEN Flt(1, 1) ELSE Flt(related, total_flow)

od_ratio(related, total_flow) == Flt(related, total_flow)
transit_ratio(transit, total_flow) == Flt(transit, total_flow)

CombinedRow(r, o, d) ==
    LET related == od_related_flow(o, d)
        transit == transit_flow(r.total_flow, related)
    IN  [gantry_code |-> r.gantry_code, date |-> r.date, hour |-> r.hour,
         total_flow |-> r.total_flow,
         origin_od_count |-> o, destination_od_count |-> d,
         od_related_flow |-> related, transit_flow |-> transit,
         od_ratio |-> od_ratio(related, r.total_flow),
         transit_ratio |-> transit_ratio(transit, r.total_flow)]

\* faulty variant: an inner join with the origin statistics
CombinedData_inner(fs, os, ds) ==
    UNION {{CombinedRow(r, o, d) : o \in {x.od_count : x \in {y \in os : Key(y) = Key(r)}},
                                   d \in CountsFor(ds, r)} : r \in fs}

CombinedData(fs, os, ds) ==
    UNION {{CombinedRow(r, o, d) : o \in CountsFor(os, r), d \in CountsFor(ds, r)} : r \in fs}

\* the labels '起止型', '通道型', '混合型' of the source
OriginDominant == "origin_dominant"
Channel == "channel"
Mixed == "mixed"
FunctionLabels == {OriginDominant, Channel, Mixed}

\* faulty variant: a row whose means compare False with everything gets no label
classify_function_partial(row) ==
    IF FGt(row.od_ratio, Lit_0_5) THEN OriginDominant
    ELSE IF FGt(row.transit_ratio, Lit_0_8) THEN Channel
    ELSE IF FLe(row.transit_ratio, Lit_0_8) THEN Mixed
    ELSE "unclassified"

classify_function(row) ==
    IF FGt(row.od_ratio, Lit_0_5) THEN OriginDominant
    ELSE IF FGt(row.transit_ratio, Lit_0_8) THEN Channel
    ELSE Mixed

\* combined_data.groupby('gantry_code').agg(mean, mean, sum) with function_type
GantrySummaryRow(cd, g) ==
    LET rows == {r \in cd : r.gantry_code = g}
        means == [transit_ratio |-> SeriesMean([r \in rows |-> r.transit_ratio]),
                  od_ratio |-> SeriesMean([r \in rows |-> r.od_ratio])]
    IN  [gantry_code |-> g,
         transit_ratio |-> means.transit_ratio,
         od_ratio |-> means.od_ratio,
         function_type |-> classify_function(means)]

\* with no row in gantry_summary, DataFrame.apply(axis=1) returns a frame of
\* four columns and its assignment to the column 'function_type' raises
_classify_gantry_function(cd) ==
    IF cd = {} THEN Raised("ValueError") ELSE
    LET gantry_summary == {GantrySummaryRow(cd, g) : g \in {r.gantry_code : r \in cd}}
        present == {row.function_type : row \in gantry_summary}
    IN  [function_distribution |->
            [l \in present |-> Cardinality({row \in gantry_summary : row.function_type = l})],
         gantry_details |-> gantry_summary]

\* the transit_analysis dict built from combined_data
TransitAnalysis(cd) ==
    LET tr == [r \in cd |-> r.transit_ratio]
    IN  IF IsRaised(_classify_gantry_function(cd)) THEN _classify_gantry_function(cd) ELSE
        [total_records |-> Cardinality(cd),
         unique_gantries |-> Cardinality({r.gantry_code : r \in cd}),
         avg_transit_ratio |-> SeriesMean(tr),
         avg_od_ratio |-> SeriesMean([r \in cd |-> r.od_ratio]),
         transit_ratio_stats |-> RatioStats(tr),
         gantry_function_classification |-> _classify_gantry_function(cd)]

_calculate_transit_flow(fs, os, ds) == TransitAnalysis(CombinedData(fs, os, ds))

----------------------------------------------------------------------------
(* The summarizer on its own: _calculate_detailed_stats applied to joined  *)
(* frames drawn from bounded sets                                          *)

StatHours == 8 .. (8 + MaxStatRows - 1)
StatOdCounts == {80, 100, 120, 125}
StatFlowTotals == {None, Some(0), Some(100), Some(250)}

StatRow(h, c) ==
    [code |-> "P1", od_date |-> TheDate, od_hour |-> h,
     od_count |-> c[1], od_vehicle_dist |-> [v \in {"passenger"} |-> c[1]],
     flow_total |-> c[2], flow_k |-> c[2],
     flow_h |-> IF c[2] = None THEN None ELSE Some(0),
     flow_t |-> IF c[2] = None THEN None ELSE Some(0)]

StatFrames ==
    UNION {{{StatRow(h, f[h]) : h \in H} : f \in [H -> StatOdCounts \X StatFlowTotals]}
           : H \in SUBSET StatHours}

InitStats ==
    /\ od_data = NoFrame
    /\ gantry_flow_data = NoFrame
    /\ onramp_flow_data = NoFrame
    /\ offramp_flow_data = NoFrame
    /\ last_call = "input"
    /\ correlation_data \in StatFrames
    /\ valid_data = NoFrame
    /\ flow_stats = NoFrame
    /\ origin_stats = NoFrame
    /\ destination_stats = NoFrame
    /\ combined_data = NoFrame
    /\ analysis_type = ""
    /\ result = EmptyDict
    /\ main_locals = {}
    /\ random_state = EmptyDict
    /\ seen_result = EmptyDict
    /\ toll_flow_data = NoFrame
    /\ od_columns = {}

CalculateDetailedStats(t) ==
    /\ last_call \in {"input", "_calculate_detailed_stats"}
    /\ last_call' = "_calculate_detailed_stats"
    /\ analysis_type' = t
    /\ valid_data' = ValidData(correlation_data, t)
    /\ result' = _calculate_detailed_stats(correlation_data, t)
    /\ UNCHANGED <<od_data, gantry_flow_data, onramp_flow_data, offramp_flow_data,
                   correlation_data, flow_stats, origin_stats, destination_stats,
                   combined_data, main_locals, random_state, seen_result,
                   toll_flow_data, od_columns>>

NextStats == \E t \in AnalysisTypes : CalculateDetailedStats(t)

SpecStats == InitStats /\ [][NextStats]_vars

----------------------------------------------------------------------------
(* The transit estimator on its own: _calculate_transit_flow applied to    *)
(* aggregates drawn from bounded sets                                      *)

TransitKeys == {<<"G2", TheDate, 9>>, <<"G3", TheDate, 8>>, <<"G3", TheDate, 9>>}
TransitFlowTotals == {0, 50, 200}
TransitOriginCounts == {10, 20, 40}
TransitDestinationCounts == {5, 20}

FlowStatRow(k, v) ==
    [gantry_code |-> k[1], date |-> k[2], hour |-> k[3], total_flow |-> v]
OdStatRow(k, v) ==
    [gantry_code |-> k[1], date |-> k[2], hour |-> k[3], od_count |-> v]

\* the assignments of a value to each of at most n keys (a groupby result has
\* one row per key)
KeyedValues(n, values) ==
    UNION {[K -> values] : K \in {X \in SUBSET TransitKeys : Cardinality(X) <= n}}

FlowStatFrames ==
    {{FlowStatRow(k, f[k]) : k \in DOMAIN f} : f \in KeyedValues(MaxFlowStatRows, TransitFlowTotals)}
OriginStatFrames ==
    {{OdStatRow(k, f[k]) : k \in DOMAIN f} : f \in KeyedValues(MaxOdStatRows, TransitOriginCounts)}
DestinationStatFrames ==
    {{OdStatRow(k, f[k]) : k \in DOMAIN f} : f \in KeyedValues(MaxOdStatRows, TransitDestinationCounts)}

InitTransit ==
    /\ od_data = NoFrame
    /\ gantry_flow_data = NoFrame
    /\ onramp_flow_data = NoFrame
    /\ offramp_flow_data = NoFrame
    /\ last_call = "input"
    /\ correlation_data = NoFrame
    /\ valid_data = NoFrame
    /\ flow_stats \in FlowStatFrames
    /\ origin_stats \in OriginStatFrames
    /\ destination_stats \in DestinationStatFrames
    /\ combined_data = NoFrame
    /\ analysis_type = ""
    /\ result = EmptyDict
    /\ main_locals = {}
    /\ random_state = EmptyDict
    /\ seen_result = EmptyDict
    /\ toll_flow_data = NoFrame
    /\ od_columns = {}

CalculateTransitFlow ==
    /\ last_call \in {"input", "_calculate_transit_flow"}
    /\ last_call' = "_calculate_transit_flow"
    /\ combined_data' = CombinedData(flow_stats, origin_stats, destination_stats)
    /\ result' = TransitAnalysis(combined_data')
    /\ UNCHANGED <<od_data, gantry_flow_data, onramp_flow_data, offramp_flow_data,
                   correlation_data, valid_data, flow_stats, origin_stats,
                   destination_stats, analysis_type, main_locals, random_state, seen_result,
                   toll_flow_data, od_columns>>

NextTransit == CalculateTransitFlow

SpecTransit == InitTransit /\ [][NextTransit]_vars

----------------------------------------------------------------------------
(* The analyzer object: load_data and the facet analyses                   *)

\* a timestamp is [date, hour, minute]; .dt.date and .dt.hour bin it
dt_date(ts) == ts.date
dt_hour(ts) == ts.hour

\* str.startswith on a string held as a sequence of characters
startswith(str, ch) == Len(str) >= 1 /\ str[1] = ch

\* faulty variant: the trailer branch is missing
classify_vehicle_type_no_trailer(vehicle_type) ==
    IF startswith(vehicle_type, "k") THEN "passenger"
    ELSE IF startswith(vehicle_type, "h") THEN "truck"
    ELSE "other"

classify_vehicle_type(vehicle_type) ==
    IF startswith(vehicle_type, "k") THEN "passenger"
    ELSE IF startswith(vehicle_type, "h") THEN "truck"
    ELSE IF startswith(vehicle_type, "t") THEN "trailer"
    ELSE "other"

\* lambda x: 'toll_square' if pd.notna(x) else 'gantry'
\* faulty variant: every endpoint is a gantry
point_type_gantry(square_code) == "gantry"

point_type(square_code) == IF notna(square_code) THEN "toll_square" ELSE "gantry"

\* Series.fillna(other): the square code, or the station code where it is null
fillna(square_code, station_code) ==
    IF notna(square_code) THEN Val(square_code) ELSE station_code

\* the columns _process_od_data adds before it classifies the vehicle types
PointAndTimeColumns(t) ==
    t @@ [start_point_code |-> fillna(t.start_square_code, t.start_station_code),
          end_point_code |-> fillna(t.end_square_code, t.end_station_code),
          start_point_type |-> point_type(t.start_square_code),
          end_point_type |-> point_type(t.end_square_code),
          start_hour |-> dt_hour(t.start_time), start_date |-> dt_date(t.start_time),
          end_hour |-> dt_hour(t.end_time), end_date |-> dt_date(t.end_time)]

\* _process_od_data on one row; vehicle_type is a nullable cell holding a string
ProcessedRow(t) ==
    PointAndTimeColumns(t) @@ [vehicle_class |-> classify_vehicle_type(Val(t.vehicle_type))]

\* vehicle_type.startswith on a null vehicle_type raises AttributeError
ProcessRaises(raw) == \E t \in raw : ~notna(t.vehicle_type)

\* self.od_data once _process_od_data has returned or raised
_process_od_data(raw) ==
    IF ProcessRaises(raw) THEN {PointAndTimeColumns(t) : t \in raw}
    ELSE {ProcessedRow(t) : t \in raw}

\* the rows a facet selects, with the columns it groups by
FacetTrips(od, atype) ==
    IF atype = "gantry_origin" THEN
        {[pass_id |-> r.pass_id, code |-> r.start_station_code, od_date |-> r.start_date,
          od_hour |-> r.start_hour, vehicle_class |-> r.vehicle_class]
            : r \in {x \in od : x.start_point_type = "gantry"}}
    ELSE IF atype = "gantry_destination" THEN
        {[pass_id |-> r.pass_id, code |-> r.end_point_code, od_date |-> r.end_date,
          od_hour |-> r.end_hour, vehicle_class |-> r.vehicle_class]
            : r \in {x \in od : x.end_point_type = "gantry"}}
    ELSE IF atype = "toll_square_entry" THEN
        {[pass_id |-> r.pass_id, code |-> Val(r.start_square_code), od_date |-> r.start_date,
          od_hour |-> r.start_hour, vehicle_class |-> r.vehicle_class]
            : r \in {x \in od : x.start_point_type = "toll_square"}}
    ELSE
        {[pass_id |-> r.pass_id, code |-> Val(r.end_square_code), od_date |-> r.end_date,
          od_hour |-> r.end_hour, vehicle_class |-> r.vehicle_class]
            : r \in {x \in od : x.end_point_type = "toll_square"}}

\* x.value_counts().to_dict()
\* faulty variant: a histogram of the three named classes only
value_counts_named(rows) ==
    [c \in {r.vehicle_class : r \in rows} \ {"other"} |->
        Cardinality({r \in rows : r.vehicle_class = c})]

value_counts(rows) ==
    [c \in {r.vehicle_class : r \in rows} |->
        Cardinality({r \in rows : r.vehicle_class = c})]

\* groupby([code, date, hour]).agg({'pass_id': 'count', 'vehicle_class': value_counts})
\* faulty variant: a key counts once however many trips it has
OdAggregated_keys(trips) ==
    {LET grp == {r \in trips : <<r.code, r.od_date, r.od_hour>> = k}
     IN  [code |-> k[1], od_date |-> k[2], od_hour |-> k[3],
          od_count |-> 1, od_vehicle_dist |-> value_counts(grp)]
        : k \in {<<r.code, r.od_date, r.od_hour>> : r \in trips}}

OdAggregated(trips) ==
    {LET grp == {r \in trips : <<r.code, r.od_date, r.od_hour>> = k}
     IN  [code |-> k[1], od_date |-> k[2], od_hour |-> k[3],
          od_count |-> Cardinality(grp), od_vehicle_dist |-> value_counts(grp)]
        : k \in {<<r.code, r.od_date, r.od_hour>> : r \in trips}}

RECURSIVE SumCol(_, _)
SumCol(rows, col) ==
    IF rows = {} THEN 0
    ELSE LET r == CHOOSE r \in rows : TRUE
         IN  r[col] + SumCol(rows \ {r}, col)

FlowKey(r) == <<r.code, dt_date(r.start_time), dt_hour(r.start_time)>>

\* groupby([code, flow_date, flow_hour]).agg(sum) of the four counters
FlowAggregated(flow) ==
    {LET grp == {r \in flow : FlowKey(r) = k}
     IN  [code |-> k[1], flow_date |-> k[2], flow_hour |-> k[3],
          flow_total |-> SumCol(grp, "total"), flow_k |-> SumCol(grp, "total_k"),
          flow_h |-> SumCol(grp, "total_h"), flow_t |-> SumCol(grp, "total_t")]
        : k \in {FlowKey(r) : r \in flow}}

JoinedRow(o, flowcols) ==
    [code |-> o.code, od_date |-> o.od_date, od_hour |-> o.od_hour,
     od_count |-> o.od_count, od_vehicle_dist |-> o.od_vehicle_dist,
     flow_total |-> flowcols[1], flow_k |-> flowcols[2],
     flow_h |-> flowcols[3], flow_t |-> flowcols[4]]

\* faulty variant: an inner join
MergeInner(od_agg, flow_agg) ==
    UNION {{JoinedRow(o, <<Some(f.flow_total), Some(f.flow_k), Some(f.flow_h), Some(f.flow_t)>>)
                : f \in {x \in flow_agg :
                    <<x.code, x.flow_date, x.flow_hour>> = <<o.code, o.od_date, o.od_hour>>}}
           : o \in od_agg}

\* pd.merge(od_aggregated, flow_aggregated, left_on=[code, od_date, od_hour],
\*          right_on=[code, flow_date, flow_hour], how='left')
MergeLeft(od_agg, flow_agg) ==
    UNION {LET hits == {x \in flow_agg :
                    <<x.code, x.flow_date, x.flow_hour>> = <<o.code, o.od_date, o.od_hour>>}
           IN  IF hits = {} THEN {JoinedRow(o, <<None, None, None, None>>)}
               ELSE {JoinedRow(o, <<Some(f.flow_total), Some(f.flow_k),
                                    Some(f.flow_h), Some(f.flow_t)>>) : f \in hits}
           : o \in od_agg}

\* the flow stream a facet is joined with
FacetFlow(atype) ==
    IF atype \in {"gantry_origin", "gantry_destination"} THEN gantry_flow_data
    ELSE IF atype = "toll_square_entry" THEN onramp_flow_data
    ELSE offramp_flow_data

\* the station / square diagnostics of the facet
Codes(frame) == {r.code : r \in frame}

\* stats['data_quality_assessment'] of the gantry-origin and toll-exit facets
CoverageAssessment(cd, od_agg, flow_agg) ==
    LET missing_flow_count == Cardinality({r \in cd : r.flow_total = None})
        matched_records == Cardinality(cd) - missing_flow_count
    IN  [total_od_records |-> Cardinality(cd),
         matched_records |-> matched_records,
         missing_flow_records |-> missing_flow_count,
         match_rate |-> Flt(matched_records, Cardinality(cd)),
         common_count |-> Cardinality(Codes(od_agg) \cap Codes(flow_agg)),
         od_only_count |-> Cardinality(Codes(od_agg) \ Codes(flow_agg)),
         flow_only_count |-> Cardinality(Codes(flow_agg) \ Codes(od_agg))]

\* stats['data_quality_assessment'] of the toll-entry facet
EntryCoverageAssessment(cd, od_agg, flow_agg) ==
    LET matched_records == Cardinality(cd)
        unmatched_od_count == Cardinality(od_agg) - matched_records
    IN  [total_od_records |-> Cardinality(od_agg),
         matched_records |-> matched_records,
         unmatched_od_records |-> unmatched_od_count,
         od_match_rate |-> Flt(matched_records, Cardinality(od_agg)),
         common_count |-> Cardinality(Codes(od_agg) \cap Codes(flow_agg)),
         od_only_count |-> Cardinality(Codes(od_agg) \ Codes(flow_agg)),
         flow_only_count |-> Cardinality(Codes(flow_agg) \ Codes(od_agg))]

\* stats[key] = value on a dict
SetItem(dict, key, value) == [k \in {key} |-> value] @@ dict

\* the value a facet analysis returns once its join is made
FacetResult(atype, cd, od_agg, flow_agg) ==
    LET stats == _calculate_detailed_stats(cd, atype)
    IN  IF cd = {} THEN EmptyDict
        ELSE IF atype = "gantry_destination" THEN stats
        ELSE IF atype = "toll_square_entry"
            THEN SetItem(stats, "data_quality_assessment",
                         EntryCoverageAssessment(cd, od_agg, flow_agg))
        ELSE SetItem(stats, "data_quality_assessment",
                     CoverageAssessment(cd, od_agg, flow_agg))

\* faulty variant: destination trips binned by their start time
_get_gantry_od_stats_start_bins(od, ptype) ==
    LET gantry_od ==
            IF ptype = "origin"
            THEN {[pass_id |-> r.pass_id, point_code |-> r.start_point_code,
                   od_date |-> dt_date(r.start_time), od_hour |-> dt_hour(r.start_time)]
                    : r \in {x \in od : x.start_point_type = "gantry"}}
            ELSE {[pass_id |-> r.pass_id, point_code |-> r.end_point_code,
                   od_date |-> dt_date(r.start_time), od_hour |-> dt_hour(r.start_time)]
                    : r \in {x \in od : x.end_point_type = "gantry"}}
    IN  {[gantry_code |-> k[1], date |-> k[2], hour |-> k[3],
          od_count |-> Cardinality({r \in gantry_od :
                                      <<r.point_code, r.od_date, r.od_hour>> = k})]
            : k \in {<<r.point_code, r.od_date, r.od_hour>> : r \in gantry_od}}

\* _get_gantry_od_stats(point_type): trips per (gantry, date, hour)
_get_gantry_od_stats(od, ptype) ==
    LET gantry_od ==
            IF ptype = "origin"
            THEN {[pass_id |-> r.pass_id, point_code |-> r.start_point_code,
                   od_date |-> dt_date(r.start_time), od_hour |-> dt_hour(r.start_time)]
                    : r \in {x \in od : x.start_point_type = "gantry"}}
            ELSE {[pass_id |-> r.pass_id, point_code |-> r.end_point_code,
                   od_date |-> dt_date(r.end_time), od_hour |-> dt_hour(r.end_time)]
                    : r \in {x \in od : x.end_point_type = "gantry"}}
    IN  {[gantry_code |-> k[1], date |-> k[2], hour |-> k[3],
          od_count |-> Cardinality({r \in gantry_od :
                                      <<r.point_code, r.od_date, r.od_hour>> = k})]
            : k \in {<<r.point_code, r.od_date, r.od_hour>> : r \in gantry_od}}

\* faulty variant: the column written as 'gantry' for every trip
RemarkEndPointType_gantry(od) ==
    {[r EXCEPT !.end_point_type = "gantry"] : r \in od}

\* the column self.od_data['end_point_type'] written again by
\* _get_gantry_od_stats('destination')
RemarkEndPointType(od) ==
    {[r EXCEPT !.end_point_type = point_type(r.end_square_code)] : r \in od}

_get_gantry_flow_stats(flow) ==
    {[gantry_code |-> k[1], date |-> k[2], hour |-> k[3],
      total_flow |-> SumCol({r \in flow : FlowKey(r) = k}, "total")]
        : k \in {FlowKey(r) : r \in flow}}

----------------------------------------------------------------------------
(* The inputs of a run: the rows the queries of load_data return           *)

TripHours == {8, 9}
\* the hours with flow rows: both hours at the gantry, the first hour at the
\* on-ramp and the second at the off-ramp
FlowHours(tbl) ==
    CASE tbl = "gantry" -> {8, 9}
      [] tbl = "onramp" -> {8}
      [] tbl = "offramp" -> {9}
FlowRowTotals == {0, 5}
VehicleTypes == {Some(<<"k", "1">>), None}

Timestamp(h) == [date |-> TheDate, hour |-> h, minute |-> 0]

\* the trips of a run differ in their origin kind, start hour and destination
\* kind; a trip lasts one hour
TripShapes ==
    [start_square : BOOLEAN, start_hour : TripHours, end_square : BOOLEAN,
     vehicle_type : VehicleTypes]

RawTrip(id, shape) ==
    [pass_id |-> id,
     start_time |-> Timestamp(shape.start_hour),
     start_station_code |-> IF shape.start_square THEN "S1" ELSE "G1",
     start_square_code |-> IF shape.start_square THEN Some("S1") ELSE None,
     end_time |-> Timestamp(shape.start_hour + 1),
     end_station_code |-> IF shape.end_square THEN "S1" ELSE "G1",
     end_square_code |-> IF shape.end_square THEN Some("S1") ELSE None,
     vehicle_type |-> shape.vehicle_type]

\* the shapes numbered, so that a result set is drawn once whatever the order
\* of its rows (pass_id is the row's number)
ShapeNumber(shape) ==
    1 + (IF shape.start_square THEN 1 ELSE 0) + 2 * (shape.start_hour - 8)
      + 4 * (IF shape.end_square THEN 1 ELSE 0)
      + 8 * (IF notna(shape.vehicle_type) THEN 0 ELSE 1)

TripLists ==
    {q \in UNION {[1..n -> TripShapes] : n \in 0..MaxTrips} :
        \A i \in 1..(Len(q) - 1) : ShapeNumber(q[i]) <= ShapeNumber(q[i + 1])}

FlowRow(code, h, total) ==
    [code |-> code, start_time |-> Timestamp(h),
     total |-> total, total_k |-> total, total_h |-> 0, total_t |-> 0]

\* the rows of the three flow tables, tagged with their table
FlowCandidates ==
    UNION {{<<tbl, FlowRow(IF tbl = "gantry" THEN "G1" ELSE "S1", h, v)>>
                : h \in FlowHours(tbl), v \in FlowRowTotals}
            : tbl \in {"gantry", "onramp", "offramp"}}

FlowSets == {F \in SUBSET FlowCandidates : Cardinality(F) <= MaxFlowRows}

TableOf(F, tbl) == {x[2] : x \in {y \in F : y[1] = tbl}}

----------------------------------------------------------------------------------------------------------------------------------------
(* The remaining analysis stages of main(): the in/out balance of the toll  *)
(* squares and the median-case sampler                                     *)

\* _get_toll_square_flow_stats: flow per (square, date, hour)
_get_toll_square_flow_stats(flow) ==
    {[square_code |-> k[1], date |-> k[2], hour |-> k[3],
      flow |-> SumCol({r \in flow : FlowKey(r) = k}, "total")]
        : k \in {FlowKey(r) : r \in flow}}

\* the outer join of the two streams with the missing side filled with 0
BalanceData(onramp_stats, offramp_stats) ==
    LET keyOf(r) == <<r.square_code, r.date, r.hour>>
        flowAt(stats, k) ==
            IF \E r \in stats : keyOf(r) = k
            THEN (CHOOSE r \in stats : keyOf(r) = k).flow ELSE 0
    IN  {[square_code |-> k[1], date |-> k[2], hour |-> k[3],
          onramp_flow |-> flowAt(onramp_stats, k),
          offramp_flow |-> flowAt(offramp_stats, k),
          flow_difference |-> flowAt(onramp_stats, k) - flowAt(offramp_stats, k),
          total_flow |-> flowAt(onramp_stats, k) + flowAt(offramp_stats, k)]
            : k \in {keyOf(r) : r \in onramp_stats \cup offramp_stats}}

\* balance_analysis without the statistics of flow_balance_ratio (a quotient
\* by onramp_flow + 1e-6)
BalanceAnalysis(balance_data) ==
    [total_records |-> Cardinality(balance_data),
     unique_squares |-> Cardinality({r.square_code : r \in balance_data})]

Lit_0_9 == Flt(9, 10)
Lit_1_1 == Flt(11, 10)

\* the number of cases analyze_median_ratio_cases samples at most
SampleLimit == 10

Min(a, b) == IF a <= b THEN a ELSE b

\* the facet whose trips analyze_median_ratio_cases(analysis_type) selects
MedianFacet(atype) == IF atype = "entry" THEN "toll_square_entry" ELSE "toll_square_exit"

\* the left join of analyze_median_ratio_cases: trips and flow per
\* (square_code, date, hour)
MedianJoined(od, flow, atype) ==
    {[square_code |-> r.code, date |-> r.od_date, hour |-> r.od_hour,
      od_count |-> r.od_count, flow_total |-> r.flow_total]
        : r \in MergeLeft(OdAggregated(FacetTrips(od, MedianFacet(atype))),
                          FlowAggregated(flow))}

\* correlation_data_valid with its od_flow_ratio column
CorrelationDataValid(cd) ==
    {r @@ [od_flow_ratio |-> TrueDiv(Some(r.od_count), r.flow_total)]
        : r \in {x \in cd : notna(x.flow_total)}}

median_ratio(cdv) == SeriesMedian([r \in cdv |-> r.od_flow_ratio])

\* faulty variant: every matched row is a median case
median_cases_all(cdv) == cdv

\* the rows within 10% of the median
median_cases(cdv) ==
    LET lower_bound == FMul(median_ratio(cdv), Lit_0_9)
        upper_bound == FMul(median_ratio(cdv), Lit_1_1)
    IN  {r \in cdv : FLe(lower_bound, r.od_flow_ratio) /\ FLe(r.od_flow_ratio, upper_bound)}

\* DataFrame.sample(min(10, len), random_state=42) draws that many rows
\* without replacement; which rows the generator picks is left open
\* (a sample of min(10, len) rows leaves out len - 10 rows, or none)
Samples(cases) ==
    UNION {{b.rows \ D : D \in {X \in SUBSET b.rows : Cardinality(X) = b.left_out}}
            : b \in {[rows |-> cases,
                      left_out |-> Cardinality(cases) - Min(SampleLimit, Cardinality(cases))]}}

\* analysis_results (the per-case vehicle and flow breakdowns are left out)
MedianAnalysis(cdv, sample_cases) ==
    [median_ratio |-> median_ratio(cdv),
     case_count |-> Cardinality(median_cases(cdv)),
     sample_cases |-> sample_cases,
     sampled_cases |-> Cardinality(sample_cases),
     quality_assessment |->
        IF FLt(median_ratio(cdv), Lit_0_8) THEN "abnormal" ELSE "normal"]

----------------------------------------------------------------------------
(* The state machine of one run of main()                                  *)

Init ==
    /\ od_data = NoFrame
    /\ gantry_flow_data = NoFrame
    /\ onramp_flow_data = NoFrame
    /\ offramp_flow_data = NoFrame
    /\ last_call = "__init__"
    /\ correlation_data = NoFrame
    /\ valid_data = NoFrame
    /\ flow_stats = NoFrame
    /\ origin_stats = NoFrame
    /\ destination_stats = NoFrame
    /\ combined_data = NoFrame
    /\ analysis_type = ""
    /\ result = EmptyDict
    /\ main_locals = {}
    /\ random_state = EmptyDict
    /\ seen_result = EmptyDict
    /\ toll_flow_data = NoFrame
    /\ od_columns = {}

\* main() calls the stages of a run in this order, each once the one before
\* it has returned
After(method) == last_call = method /\ ~IsRaised(result)

\* load_data reads the trips, processes them and then reads the three flow
\* tables; an exception of _process_od_data leaves the flow tables unread
load_data ==
    /\ After("__init__")
    /\ \E q \in TripLists, F \in FlowSets :
        LET raw == {RawTrip(i, q[i]) : i \in 1..Len(q)}
        IN  /\ od_data' = _process_od_data(raw)
            /\ IF ProcessRaises(raw)
               THEN /\ result' = Raised("AttributeError")
                    /\ UNCHANGED <<gantry_flow_data, onramp_flow_data, offramp_flow_data>>
               ELSE /\ result' = EmptyDict
                    /\ gantry_flow_data' = TableOf(F, "gantry")
                    /\ onramp_flow_data' = TableOf(F, "onramp")
                    /\ offramp_flow_data' = TableOf(F, "offramp")
    /\ last_call' = "load_data"
    /\ UNCHANGED <<correlation_data, valid_data, flow_stats, origin_stats,
                   destination_stats, combined_data, analysis_type, main_locals, random_state, seen_result,
                   toll_flow_data, od_columns>>

\* a facet analysis: select, aggregate, join, summarize
AnalyzeFacet(atype) ==
    LET trips == FacetTrips(od_data, atype)
        od_agg == OdAggregated(trips)
        flow_agg == FlowAggregated(FacetFlow(atype))
    IN  /\ correlation_data' = IF trips = {} THEN NoFrame ELSE MergeLeft(od_agg, flow_agg)
        /\ analysis_type' = IF trips = {} THEN "" ELSE atype
        /\ valid_data' = ValidData(correlation_data', atype)
        /\ result' = FacetResult(atype, correlation_data', od_agg, flow_agg)
        /\ flow_stats' = NoFrame
        /\ origin_stats' = NoFrame
        /\ destination_stats' = NoFrame
        /\ combined_data' = NoFrame
        /\ UNCHANGED <<od_data, gantry_flow_data, onramp_flow_data, offramp_flow_data, random_state>>

analyze_gantry_correlation_detailed ==
    /\ After("load_data")
    /\ last_call' = "analyze_gantry_correlation_detailed"
    /\ main_locals' = main_locals \cup {"gantry_origin_results"}
    /\ AnalyzeFacet("gantry_origin")
    /\ UNCHANGED <<seen_result, toll_flow_data, od_columns>>

analyze_gantry_destination_correlation ==
    /\ After("analyze_gantry_correlation_detailed")
    /\ last_call' = "analyze_gantry_destination_correlation"
    /\ main_locals' = main_locals \cup {"gantry_destination_results"}
    /\ AnalyzeFacet("gantry_destination")
    /\ UNCHANGED <<seen_result, toll_flow_data, od_columns>>

analyze_toll_square_correlation_detailed ==
    /\ After("analyze_gantry_transit_flow")
    /\ last_call' = "analyze_toll_square_correlation_detailed"
    /\ main_locals' = main_locals \cup {"toll_square_entry_results"}
    /\ AnalyzeFacet("toll_square_entry")
    /\ UNCHANGED <<seen_result, toll_flow_data, od_columns>>

analyze_toll_square_exit_correlation ==
    /\ After("analyze_toll_square_correlation_detailed")
    /\ last_call' = "analyze_toll_square_exit_correlation"
    /\ main_locals' = main_locals \cup {"toll_square_exit_results"}
    /\ AnalyzeFacet("toll_square_exit")
    /\ UNCHANGED <<seen_result, toll_flow_data, od_columns>>

\* analyze_gantry_transit_flow: _get_gantry_od_stats('destination') writes the
\* end_point_type column of self.od_data again
GantryTransitFlow ==
    /\ od_data' = RemarkEndPointType(od_data)
    /\ origin_stats' = _get_gantry_od_stats(od_data, "origin")
    /\ destination_stats' = _get_gantry_od_stats(od_data', "destination")
    /\ flow_stats' = _get_gantry_flow_stats(gantry_flow_data)
    /\ combined_data' = CombinedData(flow_stats', origin_stats', destination_stats')
    /\ result' = TransitAnalysis(combined_data')
    /\ correlation_data' = NoFrame
    /\ valid_data' = NoFrame
    /\ analysis_type' = ""
    /\ UNCHANGED <<gantry_flow_data, onramp_flow_data, offramp_flow_data, random_state>>

\* the result is bound in main() only if the call returns
analyze_gantry_transit_flow ==
    /\ After("analyze_gantry_destination_correlation")
    /\ last_call' = "analyze_gantry_transit_flow"
    /\ GantryTransitFlow
    /\ main_locals' = IF IsRaised(result') THEN main_locals
                      ELSE main_locals \cup {"gantry_transit_results"}
    /\ UNCHANGED <<seen_result, toll_flow_data, od_columns>>

TollSquareBalance ==
    /\ result' = BalanceAnalysis(BalanceData(_get_toll_square_flow_stats(onramp_flow_data),
                                             _get_toll_square_flow_stats(offramp_flow_data)))
    /\ correlation_data' = NoFrame
    /\ valid_data' = NoFrame
    /\ analysis_type' = ""
    /\ UNCHANGED <<od_data, gantry_flow_data, onramp_flow_data, offramp_flow_data,
                   flow_stats, origin_stats, destination_stats, combined_data,
                   random_state>>

analyze_toll_square_balance ==
    /\ After("analyze_toll_square_exit_correlation")
    /\ last_call' = "analyze_toll_square_balance"
    /\ TollSquareBalance
    /\ main_locals' = main_locals \cup {"toll_square_balance_results"}
    /\ UNCHANGED <<seen_result, toll_flow_data, od_columns>>

\* the sampler on the frames of the analyzer: {} without trips of the facet
\* or without a matched row
MedianRatioCases(atype) ==
    LET trips == FacetTrips(od_data, MedianFacet(atype))
        flow == IF atype = "entry" THEN onramp_flow_data ELSE offramp_flow_data
    IN  /\ analysis_type' = atype
        /\ correlation_data' = IF trips = {} THEN NoFrame ELSE MedianJoined(od_data, flow, atype)
        /\ valid_data' = CorrelationDataValid(correlation_data')
        /\ IF valid_data' = {} THEN result' = EmptyDict
           ELSE \E sample_cases \in Samples(median_cases(valid_data')) :
                    result' = MedianAnalysis(valid_data', sample_cases)
        /\ UNCHANGED <<od_data, gantry_flow_data, onramp_flow_data, offramp_flow_data,
                       flow_stats, origin_stats, destination_stats, combined_data, random_state>>

analyze_median_ratio_cases(atype) ==
    /\ IF atype = "entry" THEN After("analyze_toll_square_balance")
       ELSE After("analyze_median_ratio_cases('entry')")
    /\ last_call' = IF atype = "entry" THEN "analyze_median_ratio_cases('entry')"
                    ELSE "analyze_median_ratio_cases('exit')"
    /\ main_locals' = main_locals \cup
            {IF atype = "entry" THEN "toll_square_median_entry" ELSE "toll_square_median_exit"}
    /\ MedianRatioCases(atype)
    /\ UNCHANGED <<seen_result, toll_flow_data, od_columns>>

\* the except clause of main(): the exception of a stage ends the run with
\* exit code 1
main_except ==
    /\ IsRaised(result)
    /\ last_call' = "main_except"
    /\ result' = [exit_code |-> 1]
    /\ UNCHANGED <<od_data, gantry_flow_data, onramp_flow_data, offramp_flow_data,
                   correlation_data, valid_data, flow_stats, origin_stats,
                   destination_stats, combined_data, analysis_type, main_locals, random_state, seen_result,
                   toll_flow_data, od_columns>>

Next ==
    \/ load_data
    \/ analyze_gantry_correlation_detailed
    \/ analyze_gantry_destination_correlation
    \/ analyze_gantry_transit_flow
    \/ analyze_toll_square_correlation_detailed
    \/ analyze_toll_square_exit_correlation
    \/ analyze_toll_square_balance
    \/ analyze_median_ratio_cases("entry")
    \/ analyze_median_ratio_cases("exit")
    \/ main_except

Spec == Init /\ [][Next]_vars

----------------------------------------------------------------------------
(* The median-case sampler on its own: the sampling part of                *)
(* analyze_median_ratio_cases applied to joined frames drawn from bounded  *)
(* sets                                                                    *)

\* the (od_count, flow_total) pairs of the joined rows: ratios 1, 0.9 and
\* 0.89, an unmatched row and a row with a flow of 0
SampleKinds ==
    <<[od_count |-> 100, flow_total |-> Some(100)],
      [od_count |-> 90, flow_total |-> Some(100)],
      [od_count |-> 89, flow_total |-> Some(100)],
      [od_count |-> 100, flow_total |-> None],
      [od_count |-> 100, flow_total |-> Some(0)]>>

\* how many rows of each kind a frame holds
SampleCounts ==
    LET M == MaxSampleRows
    IN  UNION {UNION {UNION {UNION {{<<a, b, c, d, e>> : e \in 0..(M - a - b - c - d)}
                                    : d \in 0..(M - a - b - c)}
                             : c \in 0..(M - a - b)}
                      : b \in 0..(M - a)}
               : a \in 0..M}

\* the frame with c[k] rows of kind k, one row per hour
SampleFrame(c) ==
    LET first(k) == IF k = 1 THEN 0
                    ELSE IF k = 2 THEN c[1]
                    ELSE IF k = 3 THEN c[1] + c[2]
                    ELSE IF k = 4 THEN c[1] + c[2] + c[3]
                    ELSE c[1] + c[2] + c[3] + c[4]
    IN  UNION {{[square_code |-> "S1", date |-> TheDate, hour |-> h,
                 od_count |-> SampleKinds[k].od_count,
                 flow_total |-> SampleKinds[k].flow_total]
                    : h \in first(k) .. (first(k) + c[k] - 1)}
               : k \in 1..Len(SampleKinds)}

InitSample ==
    /\ od_data = NoFrame
    /\ gantry_flow_data = NoFrame
    /\ onramp_flow_data = NoFrame
    /\ offramp_flow_data = NoFrame
    /\ last_call = "input"
    /\ \E c \in SampleCounts : correlation_data = SampleFrame(c)
    /\ valid_data = NoFrame
    /\ flow_stats = NoFrame
    /\ origin_stats = NoFrame
    /\ destination_stats = NoFrame
    /\ combined_data = NoFrame
    /\ analysis_type = ""
    /\ result = EmptyDict
    /\ main_locals = {}
    /\ random_state = EmptyDict
    /\ seen_result = EmptyDict
    /\ toll_flow_data = NoFrame
    /\ od_columns = {}

\* analyze_median_ratio_cases from its join onwards
SampleMedianCases ==
    /\ last_call = "input"
    /\ last_call' = "analyze_median_ratio_cases"
    /\ valid_data' = CorrelationDataValid(correlation_data)
    /\ IF valid_data' = {} THEN result' = EmptyDict
       ELSE \E sample_cases \in Samples(median_cases(valid_data')) :
                result' = MedianAnalysis(valid_data', sample_cases)
    /\ UNCHANGED <<od_data, gantry_flow_data, onramp_flow_data, offramp_flow_data,
                   correlation_data, flow_stats, origin_stats, destination_stats,
                   combined_data, analysis_type, main_locals, random_state, seen_result,
                   toll_flow_data, od_columns>>

NextSample == SampleMedianCases

SpecSample == InitSample /\ [][NextSample]_vars

----------------------------------------------------------------------------
(* The sampler called twice on one joined frame.  sample(n, random_state=42) *)
(* builds a new RandomState(42) on every call and takes the rows at the      *)
(* positions its choice(N, size=n, replace=False) returns; what the          *)
(* generator returns for a pair <<N, n>> is not known here, only that an     *)
(* equally seeded generator returns it again                                 *)

\* faulty variant: an unseeded generator, any draw on every call
UnseededDraw(state, N, n) == {P \in SUBSET (1..N) : Cardinality(P) = n}

\* the draws of a generator seeded with 42, given the draws seen so far
SeededDraw(state, N, n) ==
    IF <<N, n>> \in DOMAIN state THEN {state[<<N, n>>]}
    ELSE {P \in SUBSET (1..N) : Cardinality(P) = n}

\* row order of the joined frame: groupby sorts the keys and the left join
\* keeps the order of its left frame (the frames here hold one square)
KeyBefore(a, b) == a.date < b.date \/ (a.date = b.date /\ a.hour < b.hour)

\* the rows of a frame at the positions P
iloc(frame, P) ==
    {r \in frame : (Cardinality({x \in frame : KeyBefore(x, r)}) + 1) \in P}

FirstRun == "analyze_median_ratio_cases, first call"
SecondRun == "analyze_median_ratio_cases, second call"

InitRepeat ==
    /\ od_data = NoFrame
    /\ gantry_flow_data = NoFrame
    /\ onramp_flow_data = NoFrame
    /\ offramp_flow_data = NoFrame
    /\ last_call = "input"
    /\ \E c \in {x \in SampleCounts : x[3] <= 1 /\ x[4] + x[5] <= 1}
             : correlation_data = SampleFrame(c)
    /\ valid_data = NoFrame
    /\ flow_stats = NoFrame
    /\ origin_stats = NoFrame
    /\ destination_stats = NoFrame
    /\ combined_data = NoFrame
    /\ analysis_type = ""
    /\ result = EmptyDict
    /\ main_locals = {}
    /\ random_state = EmptyDict
    /\ seen_result = EmptyDict
    /\ toll_flow_data = NoFrame
    /\ od_columns = {}

\* analyze_median_ratio_cases from its join onwards, with the seeded draw
SeededMedianCases ==
    LET cdv == CorrelationDataValid(correlation_data)
        cases == median_cases(cdv)
        N == Cardinality(cases)
        n == Min(SampleLimit, N)
    IN  /\ valid_data' = cdv
        /\ IF cdv = {} THEN result' = EmptyDict /\ UNCHANGED random_state
           ELSE \E P \in SeededDraw(random_state, N, n) :
                    /\ result' = MedianAnalysis(cdv, iloc(cases, P))
                    /\ random_state' = (<<N, n>> :> P) @@ random_state
        /\ UNCHANGED <<od_data, gantry_flow_data, onramp_flow_data, offramp_flow_data,
                       correlation_data, flow_stats, origin_stats, destination_stats,
                       combined_data, analysis_type, main_locals>>

FirstMedianCases ==
    /\ last_call = "input"
    /\ last_call' = FirstRun
    /\ SeededMedianCases
    /\ UNCHANGED <<seen_result, toll_flow_data, od_columns>>

SecondMedianCases ==
    /\ last_call = FirstRun
    /\ last_call' = SecondRun
    /\ SeededMedianCases
    /\ UNCHANGED <<seen_result, toll_flow_data, od_columns>>

NextRepeat == FirstMedianCases \/ SecondMedianCases

SpecRepeat == InitRepeat /\ [][NextRepeat]_vars

----------------------------------------------------------------------------
(* main() of test_detailed_correlation.py: MockDetailedCorrelationAnalyzer   *)
(* generates its data in load_data and runs the gantry-origin and the        *)
(* toll-entry analysis of DetailedCorrelationAnalyzer on it.  The field code *)
(* of a flow row stands for the column the analyses group by (station_code,  *)
(* square_code)                                                              *)

\* self.offramp_flow_data is never assigned by the mock
Unassigned == "unassigned"

\* a generated trip: the loop of load_data redraws the destination until its
\* station code differs from the origin's
MockTrip(id, shape) ==
    [RawTrip(id, shape) EXCEPT
        !.end_station_code = IF shape.end_square THEN "S2" ELSE "G2",
        !.end_square_code = IF shape.end_square THEN Some("S2") ELSE None]

MockTripShapes == {shape \in TripShapes : notna(shape.vehicle_type)}

MockTripLists ==
    {q \in UNION {[1..n -> MockTripShapes] : n \in 0..MaxTrips} :
        \A i \in 1..(Len(q) - 1) : ShapeNumber(q[i]) <= ShapeNumber(q[i + 1])}

\* a generated gantry flow row: its gantry column is named start_gantryid
MockGantryFlowRow(h, total) ==
    [start_gantryid |-> "G1", start_time |-> Timestamp(h),
     total |-> total, total_k |-> total, total_h |-> 0, total_t |-> 0]

\* the generated tables have a row for every code and hour; one code here
MockGantryFlow == {{MockGantryFlowRow(h, v[h]) : h \in TripHours} : v \in [TripHours -> {50, 499}]}
MockSquareFlow == {{FlowRow("S1", h, v[h]) : h \in TripHours} : v \in [TripHours -> {30, 299}]}

InitMock ==
    /\ od_data = NoFrame
    /\ gantry_flow_data = NoFrame
    /\ onramp_flow_data = NoFrame
    /\ offramp_flow_data = Unassigned
    /\ last_call = "__init__"
    /\ correlation_data = NoFrame
    /\ valid_data = NoFrame
    /\ flow_stats = NoFrame
    /\ origin_stats = NoFrame
    /\ destination_stats = NoFrame
    /\ combined_data = NoFrame
    /\ analysis_type = ""
    /\ result = EmptyDict
    /\ main_locals = {}
    /\ random_state = EmptyDict
    /\ seen_result = EmptyDict
    /\ toll_flow_data = NoFrame
    /\ od_columns = {}

\* MockDetailedCorrelationAnalyzer.load_data
MockLoadData ==
    /\ After("__init__")
    /\ last_call' = "load_data"
    /\ \E q \in MockTripLists : od_data' = _process_od_data({MockTrip(i, q[i]) : i \in 1..Len(q)})
    /\ gantry_flow_data' \in MockGantryFlow
    /\ onramp_flow_data' \in MockSquareFlow
    /\ result' = EmptyDict
    /\ UNCHANGED <<offramp_flow_data, correlation_data, valid_data, flow_stats,
                   origin_stats, destination_stats, combined_data, analysis_type,
                   main_locals, random_state, seen_result,
                   toll_flow_data, od_columns>>

\* gantry_flow.groupby(['station_code', ...]) raises KeyError on a frame
\* without that column
MockGantryAnalysis ==
    /\ After("load_data")
    /\ last_call' = "analyze_gantry_correlation_detailed"
    /\ IF FacetTrips(od_data, "gantry_origin") # {} /\ ~HasColumn(gantry_flow_data, "code")
       THEN /\ result' = Raised("KeyError")
            /\ UNCHANGED <<od_data, gantry_flow_data, onramp_flow_data, offramp_flow_data,
                           correlation_data, valid_data, flow_stats, origin_stats,
                           destination_stats, combined_data, analysis_type, random_state>>
       ELSE AnalyzeFacet("gantry_origin")
    /\ main_locals' = IF IsRaised(result') THEN main_locals
                      ELSE main_locals \cup {"gantry_results"}
    /\ UNCHANGED <<seen_result, toll_flow_data, od_columns>>

MockTollSquareAnalysis ==
    /\ After("analyze_gantry_correlation_detailed")
    /\ last_call' = "analyze_toll_square_correlation_detailed"
    /\ AnalyzeFacet("toll_square_entry")
    /\ main_locals' = main_locals \cup {"square_results"}
    /\ UNCHANGED <<seen_result, toll_flow_data, od_columns>>

\* the except clause of the test's main()
MockExcept ==
    /\ IsRaised(result)
    /\ last_call' = "main_except"
    /\ result' = [exit_code |-> 1]
    /\ UNCHANGED <<od_data, gantry_flow_data, onramp_flow_data, offramp_flow_data,
                   correlation_data, valid_data, flow_stats, origin_stats,
                   destination_stats, combined_data, analysis_type, main_locals,
                   random_state, seen_result,
                   toll_flow_data, od_columns>>

NextMock ==
    \/ MockLoadData
    \/ MockGantryAnalysis
    \/ MockTollSquareAnalysis
    \/ MockExcept

SpecMock == InitMock /\ [][NextMock]_vars

----------------------------------------------------------------------------
(* The analysis stages of a loaded DetailedCorrelationAnalyzer called in   *)
(* any order and any number of times: a stage is a method of the object,   *)
(* and all it shares with the other stages are the four loaded frames      *)

Stages ==
    {"analyze_gantry_correlation_detailed", "analyze_gantry_destination_correlation",
     "analyze_gantry_transit_flow", "analyze_toll_square_correlation_detailed",
     "analyze_toll_square_exit_correlation", "analyze_toll_square_balance",
     "analyze_median_ratio_cases('entry')", "analyze_median_ratio_cases('exit')"}

\* the flow tables of a loaded analyzer here: a row for every hour of every
\* table, all with the same total, or no rows at all
StageFlowSets == {{}} \cup {{c \in FlowCandidates : c[2].total = v} : v \in FlowRowTotals}

\* the state after a load_data that returned, with trips that start in the
\* first hour
InitStages ==
    /\ \E q \in {x \in MockTripLists : \A i \in 1..Len(x) : x[i].start_hour = 8} :
            od_data = _process_od_data({RawTrip(i, q[i]) : i \in 1..Len(q)})
    /\ \E F \in StageFlowSets :
            /\ gantry_flow_data = TableOf(F, "gantry")
            /\ onramp_flow_data = TableOf(F, "onramp")
            /\ offramp_flow_data = TableOf(F, "offramp")
    /\ last_call = "load_data"
    /\ correlation_data = NoFrame
    /\ valid_data = NoFrame
    /\ flow_stats = NoFrame
    /\ origin_stats = NoFrame
    /\ destination_stats = NoFrame
    /\ combined_data = NoFrame
    /\ analysis_type = ""
    /\ result = EmptyDict
    /\ main_locals = {}
    /\ random_state = EmptyDict
    /\ seen_result = EmptyDict
    /\ toll_flow_data = NoFrame
    /\ od_columns = {}

\* analyze_median_ratio_cases with the seeded draw of its sample
SeededMedianRatioCases(atype) ==
    LET trips == FacetTrips(od_data, MedianFacet(atype))
        flow == IF atype = "entry" THEN onramp_flow_data ELSE offramp_flow_data
        joined == IF trips = {} THEN NoFrame ELSE MedianJoined(od_data, flow, atype)
        cdv == CorrelationDataValid(joined)
        cases == median_cases(cdv)
        N == Cardinality(cases)
        n == Min(SampleLimit, N)
    IN  /\ analysis_type' = atype
        /\ correlation_data' = joined
        /\ valid_data' = cdv
        /\ IF cdv = {} THEN result' = EmptyDict /\ UNCHANGED random_state
           ELSE \E P \in SeededDraw(random_state, N, n) :
                    /\ result' = MedianAnalysis(cdv, iloc(cases, P))
                    /\ random_state' = (<<N, n>> :> P) @@ random_state
        /\ UNCHANGED <<od_data, gantry_flow_data, onramp_flow_data, offramp_flow_data,
                       flow_stats, origin_stats, destination_stats, combined_data>>

StageBody(stage) ==
    CASE stage = "analyze_gantry_correlation_detailed" -> AnalyzeFacet("gantry_origin")
      [] stage = "analyze_gantry_destination_correlation" -> AnalyzeFacet("gantry_destination")
      [] stage = "analyze_gantry_transit_flow" -> GantryTransitFlow
      [] stage = "analyze_toll_square_correlation_detailed" -> AnalyzeFacet("toll_square_entry")
      [] stage = "analyze_toll_square_exit_correlation" -> AnalyzeFacet("toll_square_exit")
      [] stage = "analyze_toll_square_balance" -> TollSquareBalance
      [] stage = "analyze_median_ratio_cases('entry')" -> SeededMedianRatioCases("entry")
      [] stage = "analyze_median_ratio_cases('exit')" -> SeededMedianRatioCases("exit")

\* a call of a stage; the first call and its result are remembered
CallStage ==
    \E stage \in Stages :
        /\ last_call' = stage
        /\ StageBody(stage)
        /\ seen_result' = IF seen_result = EmptyDict
                          THEN [stage |-> stage, returned |-> result']
                          ELSE seen_result
        /\ UNCHANGED <<main_locals, toll_flow_data, od_columns>>

NextStages == CallStage

SpecStages == InitStages /\ [][NextStages]_vars

----------------------------------------------------------------------------
(* ODDataAnalyzer.analyze_od_basic_stats (od_data_analysis.py)             *)

\* the classify_vehicle_type of analyze_od_basic_stats
ODDataAnalyzer_classify_vehicle_type(vehicle_type) ==
    IF startswith(vehicle_type, "k") THEN "passenger"
    ELSE IF startswith(vehicle_type, "h") THEN "truck"
    ELSE IF startswith(vehicle_type, "t") THEN "trailer"
    ELSE "other"

\* lambda x: 'toll_square' if pd.notna(x) else 'gantry' of analyze_od_basic_stats
ODDataAnalyzer_point_type(square_code) ==
    IF notna(square_code) THEN "toll_square" ELSE "gantry"

\* the columns analyze_od_basic_stats adds to self.od_data
BasicColumns(t) ==
    LET start_point_code == fillna(t.start_square_code, t.start_station_code)
        end_point_code == fillna(t.end_square_code, t.end_station_code)
    IN  t @@ [start_point_code |-> start_point_code,
              end_point_code |-> end_point_code,
              start_point_type |-> ODDataAnalyzer_point_type(t.start_square_code),
              end_point_type |-> ODDataAnalyzer_point_type(t.end_square_code),
              is_pass_through |-> (start_point_code = end_point_code)]

\* self.valid_od_data before its vehicle_class column is added
ValidOdRows(od) ==
    {r @@ [start_hour |-> dt_hour(r.start_time), start_date |-> dt_date(r.start_time)]
        : r \in {x \in od : ~x.is_pass_through}}

\* vehicle_type.startswith on a null vehicle_type of a valid trip raises
BasicStatsRaises(valid) == \E r \in valid : ~notna(r.vehicle_type)

\* self.valid_od_data once analyze_od_basic_stats has returned or raised
valid_od_data(od) ==
    IF BasicStatsRaises(ValidOdRows(od)) THEN ValidOdRows(od)
    ELSE {r @@ [vehicle_class |-> ODDataAnalyzer_classify_vehicle_type(Val(r.vehicle_type))]
            : r \in ValidOdRows(od)}

\* vehicle_class_counts.get(class, 0)
ClassCount(valid, class) == Cardinality({r \in valid : r.vehicle_class = class})

\* the stats dict (its other distributions are counts of raw columns)
BasicStats(od, valid) ==
    IF BasicStatsRaises(valid) THEN Raised("AttributeError") ELSE
    [total_records |-> Cardinality(od),
     total_valid |-> Cardinality(valid),
     total_pass_through |-> Cardinality(od) - Cardinality(valid),
     vehicle_class_distribution |->
        [passenger_count |-> ClassCount(valid, "passenger"),
         truck_count |-> ClassCount(valid, "truck"),
         trailer_count |-> ClassCount(valid, "trailer"),
         other_count |-> ClassCount(valid, "other")],
     start_point_type_dist |->
        [pt \in {r.start_point_type : r \in od} |->
            Cardinality({r \in od : r.start_point_type = pt})],
     end_point_type_dist |->
        [pt \in {r.end_point_type : r \in od} |->
            Cardinality({r \in od : r.end_point_type = pt})]]

----------------------------------------------------------------------------
(* The preprocessing of both analyzers on their own: _process_od_data with *)
(* the groupby of a facet, and analyze_od_basic_stats, applied to trips    *)
(* drawn from bounded sets                                                 *)

\* raw vehicle_type cells: three recognised codes, an unrecognised one, the
\* empty string and a null
ProcessVehicleTypeList ==
    <<Some(<<"k", "1">>), Some(<<"h", "2">>), Some(<<"t", "3">>),
      Some(<<"x", "9">>), Some(<<>>), None>>

ProcessShapeNumbers == 1 .. (4 * Len(ProcessVehicleTypeList))

\* shape n: a vehicle type, an origin kind and a destination kind
ProcessShape(n) ==
    LET k == Len(ProcessVehicleTypeList)
    IN  [start_square |-> ((n - 1) \div k) % 2 = 1,
         start_hour |-> 8,
         end_square |-> (n - 1) \div (2 * k) = 1,
         vehicle_type |-> ProcessVehicleTypeList[((n - 1) % k) + 1]]

\* the result sets, each drawn once whatever the order of its rows
ProcessTripLists ==
    {q \in UNION {[1..n -> ProcessShapeNumbers] : n \in 0..MaxTrips} :
        \A i \in 1..(Len(q) - 1) : q[i] <= q[i + 1]}

InitProcess ==
    /\ \E q \in ProcessTripLists :
            od_data = {RawTrip(i, ProcessShape(q[i])) : i \in 1..Len(q)}
    /\ gantry_flow_data = NoFrame
    /\ onramp_flow_data = NoFrame
    /\ offramp_flow_data = NoFrame
    /\ last_call = "input"
    /\ correlation_data = NoFrame
    /\ valid_data = NoFrame
    /\ flow_stats = NoFrame
    /\ origin_stats = NoFrame
    /\ destination_stats = NoFrame
    /\ combined_data = NoFrame
    /\ analysis_type = ""
    /\ result = EmptyDict
    /\ main_locals = {}
    /\ random_state = EmptyDict
    /\ seen_result = EmptyDict
    /\ toll_flow_data = NoFrame
    /\ od_columns = {}

\* DetailedCorrelationAnalyzer._process_od_data on the raw trips
ProcessOdData ==
    /\ last_call = "input"
    /\ last_call' = "_process_od_data"
    /\ od_data' = _process_od_data(od_data)
    /\ result' = IF ProcessRaises(od_data) THEN Raised("AttributeError") ELSE EmptyDict
    /\ UNCHANGED <<gantry_flow_data, onramp_flow_data, offramp_flow_data,
                   correlation_data, valid_data, flow_stats, origin_stats,
                   destination_stats, combined_data, analysis_type, main_locals, random_state, seen_result,
                   toll_flow_data, od_columns>>

\* the od_aggregated frame of a facet of the processed trips
AggregateFacet(atype) ==
    /\ last_call = "_process_od_data"
    /\ ~IsRaised(result)
    /\ last_call' = "groupby"
    /\ analysis_type' = atype
    /\ correlation_data' = OdAggregated(FacetTrips(od_data, atype))
    /\ UNCHANGED <<od_data, gantry_flow_data, onramp_flow_data, offramp_flow_data,
                   valid_data, flow_stats, origin_stats, destination_stats,
                   combined_data, result, main_locals, random_state, seen_result,
                   toll_flow_data, od_columns>>

\* ODDataAnalyzer.analyze_od_basic_stats on the raw trips
AnalyzeOdBasicStats ==
    /\ last_call = "input"
    /\ last_call' = "analyze_od_basic_stats"
    /\ od_data' = {BasicColumns(t) : t \in od_data}
    /\ valid_data' = valid_od_data(od_data')
    /\ result' = BasicStats(od_data', valid_data')
    /\ UNCHANGED <<gantry_flow_data, onramp_flow_data, offramp_flow_data,
                   correlation_data, flow_stats, origin_stats, destination_stats,
                   combined_data, analysis_type, main_locals, random_state, seen_result,
                   toll_flow_data, od_columns>>

NextProcess ==
    \/ ProcessOdData
    \/ \E atype \in AnalysisTypes : AggregateFacet(atype)
    \/ AnalyzeOdBasicStats

SpecProcess == InitProcess /\ [][NextProcess]_vars

----------------------------------------------------------------------------
(* ODDataAnalyzer.run_full_analysis (od_data_analysis.py).  An attribute   *)
(* of the analyzer is None or Some(frame); valid_data stands for           *)
(* self.valid_od_data and is None until analyze_od_basic_stats assigns it; *)
(* main_locals holds the locals run_full_analysis has bound                *)

\* the attributes __init__ assigns; no method assigns any other but
\* valid_od_data
ODDataAnalyzer_attributes ==
    {"db_config", "engine", "od_data", "gantry_flow_data", "toll_flow_data"}

hasattr(attributes, name) == name \in attributes

\* faulty variant: anomaly detection called before the basic statistics
StageOrder_anomalies_first ==
    <<"connect_database", "load_od_data", "load_flow_data", "detect_od_anomalies",
      "analyze_od_basic_stats", "analyze_origin_correlation", "analyze_od_flow_consistency",
      "create_visualizations", "generate_report", "export_anomaly_data">>

\* the calls in the try block of run_full_analysis, in program order
StageOrder ==
    <<"connect_database", "load_od_data", "load_flow_data", "analyze_od_basic_stats",
      "detect_od_anomalies", "analyze_origin_correlation", "analyze_od_flow_consistency",
      "create_visualizations", "generate_report", "export_anomaly_data">>

\* control reaches the call of a stage when the call before it has returned
Turn(stage) ==
    LET k == CHOOSE i \in 1..Len(StageOrder) : StageOrder[i] = stage
    IN  /\ ~IsRaised(result)
        /\ last_call = IF k = 1 THEN "run_full_analysis" ELSE StageOrder[k - 1]

\* the state of DetailedCorrelationAnalyzer, which an ODDataAnalyzer lacks
detailed_vars ==
    <<onramp_flow_data, offramp_flow_data, correlation_data, flow_stats, origin_stats,
      destination_stats, combined_data, analysis_type, random_state, seen_result>>

\* self.od_data[column] for every column of the list
MissingColumns(columns) == columns \ od_columns

RawColumns ==
    {"pass_id", "vehicle_type", "start_time", "start_square_code", "start_station_code",
     "end_time", "end_square_code", "end_station_code"}

\* the state after ODDataAnalyzer(db_config) and the entry into
\* run_full_analysis
InitFull ==
    /\ od_data = None
    /\ gantry_flow_data = None
    /\ toll_flow_data = None
    /\ valid_data = None
    /\ od_columns = {}
    /\ last_call = "run_full_analysis"
    /\ result = EmptyDict
    /\ main_locals = {}
    /\ onramp_flow_data = Unassigned
    /\ offramp_flow_data = Unassigned
    /\ correlation_data = NoFrame
    /\ flow_stats = NoFrame
    /\ origin_stats = NoFrame
    /\ destination_stats = NoFrame
    /\ combined_data = NoFrame
    /\ analysis_type = ""
    /\ random_state = EmptyDict
    /\ seen_result = EmptyDict

\* create_engine raises or returns
connect_database ==
    /\ Turn("connect_database")
    /\ last_call' = "connect_database"
    /\ result' \in {EmptyDict, Raised("Exception")}
    /\ UNCHANGED <<od_data, gantry_flow_data, toll_flow_data, valid_data, od_columns,
                   main_locals, detailed_vars>>

\* the count query's exception is handled inside; the exception of the main
\* query is raised again
load_od_data ==
    /\ Turn("load_od_data")
    /\ last_call' = "load_od_data"
    /\ \/ /\ \E q \in TripLists :
                od_data' = Some({RawTrip(i, q[i]) : i \in 1..Len(q)})
          /\ od_columns' = RawColumns
          /\ result' = EmptyDict
       \/ /\ result' = Raised("Exception")
          /\ UNCHANGED <<od_data, od_columns>>
    /\ UNCHANGED <<gantry_flow_data, toll_flow_data, valid_data, main_locals, detailed_vars>>

\* pd.concat([onramp_data, offramp_data]) of the rows tagged with flow_type
TollFlowData(F) ==
    {r @@ [flow_type |-> "onramp"] : r \in TableOf(F, "onramp")}
        \cup {r @@ [flow_type |-> "offramp"] : r \in TableOf(F, "offramp")}

load_flow_data ==
    /\ Turn("load_flow_data")
    /\ last_call' = "load_flow_data"
    /\ \/ /\ \E F \in StageFlowSets :
                /\ gantry_flow_data' = Some(TableOf(F, "gantry"))
                /\ toll_flow_data' = Some(TollFlowData(F))
          /\ result' = EmptyDict
       \/ /\ result' = Raised("Exception")
          /\ UNCHANGED <<gantry_flow_data, toll_flow_data>>
    /\ UNCHANGED <<od_data, valid_data, od_columns, main_locals, detailed_vars>>

\* the columns analyze_od_basic_stats has added when classify_vehicle_type
\* raises, and the two it adds after that
BasicStatsColumns ==
    {"start_point_code", "end_point_code", "od_pair", "start_point_type",
     "end_point_type", "od_pair_type", "is_pass_through"}

analyze_od_basic_stats ==
    /\ Turn("analyze_od_basic_stats")
    /\ last_call' = "analyze_od_basic_stats"
    /\ IF od_data = None
       THEN /\ result' = Raised("ValueError")
            /\ UNCHANGED <<od_data, valid_data, od_columns>>
       ELSE /\ od_data' = Some({BasicColumns(t) : t \in Val(od_data)})
            /\ valid_data' = Some(valid_od_data(Val(od_data')))
            /\ result' = BasicStats(Val(od_data'), Val(valid_data'))
            /\ od_columns' = od_columns \cup BasicStatsColumns
                    \cup (IF IsRaised(result') THEN {} ELSE {"hour", "weekday"})
    /\ main_locals' = IF IsRaised(result') THEN main_locals ELSE main_locals \cup {"stats"}
    /\ UNCHANGED <<gantry_flow_data, toll_flow_data, detailed_vars>>

\* detect_od_anomalies: the pass-through count of lines 421-424 and the
\* travel_time_hours column of line 432 (a trip here takes one hour)
detect_od_anomalies ==
    /\ Turn("detect_od_anomalies")
    /\ last_call' = "detect_od_anomalies"
    /\ IF MissingColumns({"start_point_code", "end_point_code"}) # {}
       THEN /\ result' = Raised("KeyError")
            /\ UNCHANGED od_columns
       ELSE LET same_origin_dest ==
                    {r \in Val(od_data) : r.start_point_code = r.end_point_code}
            IN  /\ result' = [pass_through_vehicles |-> Cardinality(same_origin_dest),
                              long_travel_time |-> 0,
                              short_travel_time |-> 0,
                              anomaly_samples |->
                                 IF same_origin_dest = {} THEN {}
                                 ELSE {"pass_through_vehicles"}]
                /\ od_columns' = od_columns \cup {"travel_time_hours"}
    /\ main_locals' = IF IsRaised(result') THEN main_locals ELSE main_locals \cup {"anomalies"}
    /\ UNCHANGED <<od_data, gantry_flow_data, toll_flow_data, valid_data, detailed_vars>>

\* {'error': ...}, returned without flow rows or without a matched hour
NoFlowData == [error |-> "no flow data"]

\* _analyze_gantry_correlation: the inner join of the hourly trip counts with
\* the hourly flow totals, on gantry and hour of day
_analyze_gantry_correlation(gantry_origins) ==
    LET od_hourly == {<<r.start_station_code, r.start_hour>> : r \in gantry_origins}
        flow_hourly == {<<f.code, dt_hour(f.start_time)>> : f \in Val(gantry_flow_data)}
        correlation == od_hourly \cap flow_hourly
    IN  IF hasattr(ODDataAnalyzer_attributes, "gantry_flow_data")
           /\ Val(gantry_flow_data) # {} /\ correlation # {}
        THEN [matched_records |-> Cardinality(correlation),
              total_od_records |-> Cardinality(od_hourly)]
        ELSE NoFlowData

\* _analyze_toll_square_correlation reads self.onramp_flow_data only behind
\* hasattr(self, 'onramp_flow_data')
_analyze_toll_square_correlation(toll_square_origins) ==
    IF hasattr(ODDataAnalyzer_attributes, "onramp_flow_data")
    THEN [matched_records |-> 0,
          total_od_records |->
            Cardinality({<<r.start_square_code, r.start_hour>> : r \in toll_square_origins})]
    ELSE NoFlowData

OriginCorrelation(valid) ==
    LET gantry_origins == {r \in valid : r.start_point_type = "gantry"}
        toll_square_origins == {r \in valid : r.start_point_type = "toll_square"}
        gantry == IF gantry_origins # {}
                     /\ hasattr(ODDataAnalyzer_attributes, "gantry_flow_data")
                  THEN [gantry_correlation |-> _analyze_gantry_correlation(gantry_origins)]
                  ELSE EmptyDict
        toll == IF toll_square_origins # {}
                   /\ hasattr(ODDataAnalyzer_attributes, "onramp_flow_data")
                THEN [toll_square_correlation |->
                        _analyze_toll_square_correlation(toll_square_origins)]
                ELSE EmptyDict
    IN  gantry @@ toll @@
        [summary |-> [total_valid_od |-> Cardinality(valid),
                      gantry_origin_count |-> Cardinality(gantry_origins),
                      toll_square_origin_count |-> Cardinality(toll_square_origins)]]

analyze_origin_correlation ==
    /\ Turn("analyze_origin_correlation")
    /\ last_call' = "analyze_origin_correlation"
    /\ result' = IF valid_data = None THEN Raised("AttributeError")
                 ELSE OriginCorrelation(Val(valid_data))
    /\ main_locals' = IF IsRaised(result') THEN main_locals
                      ELSE main_locals \cup {"correlation_analysis"}
    /\ UNCHANGED <<od_data, gantry_flow_data, toll_flow_data, valid_data, od_columns,
                   detailed_vars>>

\* the weekly groups of the trips by origin square (a null key makes no
\* group) and of the on-ramp rows by square; the data here lie in one week
analyze_od_flow_consistency ==
    /\ Turn("analyze_od_flow_consistency")
    /\ last_call' = "analyze_od_flow_consistency"
    /\ result' =
            IF gantry_flow_data = None \/ toll_flow_data = None THEN EmptyDict
            ELSE [od_weekly_count |->
                    Cardinality({r.start_square_code :
                                    r \in {x \in Val(od_data) : notna(x.start_square_code)}}),
                  onramp_weekly_count |->
                    Cardinality({f.code :
                                    f \in {x \in Val(toll_flow_data) : x.flow_type = "onramp"}})]
    /\ main_locals' = main_locals \cup {"consistency"}
    /\ UNCHANGED <<od_data, gantry_flow_data, toll_flow_data, valid_data, od_columns,
                   detailed_vars>>

\* create_visualizations reads four derived columns; drawing and saving may
\* raise
create_visualizations ==
    /\ Turn("create_visualizations")
    /\ last_call' = "create_visualizations"
    /\ IF MissingColumns({"hour", "weekday", "travel_time_hours", "od_pair"}) # {}
       THEN result' = Raised("KeyError")
       ELSE result' \in {EmptyDict, Raised("Exception")}
    /\ UNCHANGED <<od_data, gantry_flow_data, toll_flow_data, valid_data, od_columns,
                   main_locals, detailed_vars>>

\* generate_report writes the report file
generate_report ==
    /\ Turn("generate_report")
    /\ last_call' = "generate_report"
    /\ result' \in {EmptyDict, Raised("Exception")}
    /\ UNCHANGED <<od_data, gantry_flow_data, toll_flow_data, valid_data, od_columns,
                   main_locals, detailed_vars>>

\* export_anomaly_data handles the exceptions of its two exports itself;
\* os.makedirs is outside its try
export_anomaly_data ==
    /\ Turn("export_anomaly_data")
    /\ last_call' = "export_anomaly_data"
    /\ result' \in {EmptyDict, Raised("Exception")}
    /\ UNCHANGED <<od_data, gantry_flow_data, toll_flow_data, valid_data, od_columns,
                   main_locals, detailed_vars>>

\* the json.dump and the return of run_full_analysis
run_full_analysis_return ==
    /\ last_call = StageOrder[Len(StageOrder)]
    /\ ~IsRaised(result)
    /\ \/ /\ last_call' = "return"
          /\ result' = [returned |-> {"stats", "anomalies", "consistency", "output_dir"}]
       \/ /\ last_call' = "json.dump"
          /\ result' = Raised("Exception")
    /\ UNCHANGED <<od_data, gantry_flow_data, toll_flow_data, valid_data, od_columns,
                   main_locals, detailed_vars>>

\* the except clause of run_full_analysis: log and raise
run_full_analysis_except ==
    /\ IsRaised(result)
    /\ last_call # "except"
    /\ last_call' = "except"
    /\ result' = result
    /\ UNCHANGED <<od_data, gantry_flow_data, toll_flow_data, valid_data, od_columns,
                   main_locals, detailed_vars>>

NextFull ==
    \/ connect_database
    \/ load_od_data
    \/ load_flow_data
    \/ analyze_od_basic_stats
    \/ detect_od_anomalies
    \/ analyze_origin_correlation
    \/ analyze_od_flow_consistency
    \/ create_visualizations
    \/ generate_report
    \/ export_anomaly_data
    \/ run_full_analysis_return
    \/ run_full_analysis_except

SpecFull == InitFull /\ [][NextFull]_vars

----------------------------------------------------------------------------
(* Properties of the summarizer (checked under SpecStats)                  *)

One == <<1, 1>>
Zero == <<0, 1>>
StatsReturned == last_call = "_calculate_detailed_stats"
AllFinite(st) ==
    IsFinite(st.mean) /\ IsFinite(st.median) /\ IsFinite(st.min) /\ IsFinite(st.max)

\* C2: the ratio statistics are computed only over joined rows whose
\* flow_total is non-null and > 0, so that no reported od_flow_ratio or
\* flow_od_ratio statistic is infinite or NaN.
C2_RatioStatsOnlyOverPositiveFlow ==
    StatsReturned =>
        /\ \A r \in valid_data : notna(r.flow_total) /\ Val(r.flow_total) > 0
        /\ "od_flow_ratio_stats" \in DOMAIN result =>
              /\ AllFinite(result.od_flow_ratio_stats)
              /\ AllFinite(result.flow_od_ratio_stats)

\* C3: on every row with flow_total > 0, od_flow_ratio * flow_total =
\* trip_count and od_flow_ratio * flow_od_ratio = 1, in gantry and toll-square
\* facets alike; 100 trips against a flow of 250 give od_flow_ratio = 0.4.
C3_RatiosAreReciprocal ==
    \A r \in valid_data :
        Val(r.flow_total) > 0 =>
            /\ FMul(r.od_flow_ratio, <<Val(r.flow_total), 1>>) = <<r.od_count, 1>>
            /\ FMul(r.od_flow_ratio, r.flow_od_ratio) = One
            /\ (r.od_count = 100 /\ Val(r.flow_total) = 250) => r.od_flow_ratio = Flt(4, 10)

C3_Witness ==
    /\ StatsReturned
    /\ analysis_type = "gantry_origin"
    /\ \E r \in valid_data : r.od_count = 100 /\ r.flow_total = Some(250)

\* C9 as stated: in the toll-square facets a matched row is flagged normal
\* if and only if 0.8 <= flow_od_ratio <= 1.2.
C9_FlagByFlowOdRatio ==
    \A r \in valid_data :
        "data_quality_flag" \in DOMAIN r =>
            (r.data_quality_flag = "normal"
                <=> (FLe(Lit_0_8, r.flow_od_ratio) /\ FLe(r.flow_od_ratio, Lit_1_2)))

\* C9 as amended: in the toll-square entry and exit facets every matched row
\* carries a flag, which is normal if and only if
\* 0.8 <= od_flow_ratio <= 1.2 (od_flow_ratio = trip_count / flow_total), and
\* abnormal otherwise.
C9_FlagByOdFlowRatio ==
    (StatsReturned /\ IsTollSquareType(analysis_type)) =>
        \A r \in valid_data :
            /\ "data_quality_flag" \in DOMAIN r
            /\ r.data_quality_flag \in {"normal", "abnormal"}
            /\ r.data_quality_flag = "normal" <=>
                    /\ Val(r.flow_total) > 0
                    /\ 8 * Val(r.flow_total) <= 10 * r.od_count
                    /\ 10 * r.od_count <= 12 * Val(r.flow_total)

C9_Witness ==
    /\ StatsReturned
    /\ analysis_type = "toll_square_exit"
    /\ \E r \in valid_data : r.data_quality_flag = "normal" /\ r.od_count # Val(r.flow_total)
    /\ \E r \in valid_data : r.data_quality_flag = "abnormal" /\ Val(r.flow_total) > 0

\* C10: in the toll-square entry facet a matched row with trip_count = 80 and
\* flow_total = 100 has flow_od_ratio = 1.25 and is flagged normal.
C10_ScenarioB ==
    (StatsReturned /\ analysis_type = "toll_square_entry") =>
        \A r \in valid_data :
            (r.od_count = 80 /\ r.flow_total = Some(100)) =>
                /\ r.flow_od_ratio = Flt(125, 100)
                /\ r.data_quality_flag = "normal"

C10_Witness ==
    /\ StatsReturned
    /\ analysis_type = "toll_square_entry"
    /\ \E r \in valid_data : r.od_count = 80 /\ r.flow_total = Some(100)

\* C23: for a non-empty matched subset the summary holds the statistics of
\* the per-class ratio differences (truck and passenger) next to the
\* od_flow_ratio and flow_od_ratio statistics.
C23_SummaryHoldsClassRatioDiffs ==
    (StatsReturned /\ valid_data # {}) =>
        /\ {"od_flow_ratio_stats", "flow_od_ratio_stats"} \subseteq DOMAIN result
        /\ "vehicle_ratio_comparison" \in DOMAIN result
        /\ {"truck_ratio_diff_mean", "passenger_ratio_diff_mean"}
                \subseteq DOMAIN result.vehicle_ratio_comparison

----------------------------------------------------------------------------
(* Properties of the transit estimator (checked under SpecTransit)         *)

TransitReturned == last_call = "_calculate_transit_flow" /\ ~IsRaised(result)

\* C4: od_related_flow = origin_od_count + destination_od_count and
\* transit_flow = max(0, total_flow - od_related_flow): never negative, the
\* exact remainder when total_flow >= od_related_flow, and 0 otherwise
\* (origin 10, destination 5, total 200 give 15, 185 and transit_ratio 0.925).
C4_TransitFlowIsClippedRemainder ==
    \A r \in combined_data :
        /\ r.od_related_flow = r.origin_od_count + r.destination_od_count
        /\ r.transit_flow >= 0
        /\ r.total_flow >= r.od_related_flow =>
                r.transit_flow + r.od_related_flow = r.total_flow
        /\ r.total_flow < r.od_related_flow => r.transit_flow = 0
        /\ (r.origin_od_count = 10 /\ r.destination_od_count = 5 /\ r.total_flow = 200) =>
                /\ r.od_related_flow = 15
                /\ r.transit_flow = 185
                /\ r.transit_ratio = Flt(925, 1000)

C4_Witness ==
    /\ TransitReturned
    /\ \E r \in combined_data :
            r.origin_od_count = 10 /\ r.destination_od_count = 5 /\ r.total_flow = 200

\* C5: on every row with total_flow = 0 both transit_ratio and od_ratio are
\* 0, so that the per-gantry means and the reported transit statistics hold
\* neither NaN nor infinity.
C5_ZeroFlowRatiosAreZero ==
    TransitReturned =>
        /\ \A r \in combined_data :
                r.total_flow = 0 => (r.transit_ratio = Zero /\ r.od_ratio = Zero)
        /\ \A g \in result.gantry_function_classification.gantry_details :
                IsFinite(g.od_ratio) /\ IsFinite(g.transit_ratio)
        /\ combined_data # {} =>
                (IsFinite(result.avg_od_ratio) /\ AllFinite(result.transit_ratio_stats))

\* C6: only transit_flow is clipped: with od_related_flow > total_flow > 0,
\* transit_flow = 0 and transit_ratio = 0 while od_ratio stays above 1
\* (total 50, origin 40, destination 20 give od_ratio = 1.2).
C6_OnlyTransitFlowClips ==
    \A r \in combined_data :
        (r.od_related_flow > r.total_flow /\ r.total_flow > 0) =>
            /\ r.transit_flow = 0
            /\ r.transit_ratio = Zero
            /\ FGt(r.od_ratio, One)
            /\ FMul(r.od_ratio, <<r.total_flow, 1>>) = <<r.od_related_flow, 1>>
            /\ (r.total_flow = 50 /\ r.origin_od_count = 40 /\ r.destination_od_count = 20) =>
                    r.od_ratio = Flt(12, 10)

C6_Witness ==
    /\ TransitReturned
    /\ \E r \in combined_data :
            r.total_flow = 50 /\ r.origin_od_count = 40 /\ r.destination_od_count = 20

\* the ratios as the specification defines them: 0 when total_flow is 0
DefinedRatio(num, total_flow) == IF total_flow = 0 THEN Zero ELSE Flt(num, total_flow)

\* the mean of a column over all the rows of gantry g
MeanOverAllRows(g, Col(_)) ==
    LET rows == {r \in combined_data : r.gantry_code = g}
    IN  FDivN(SumOver([r \in rows |-> Col(r)], rows), Cardinality(rows))

LabelOfMeans(od, tr) ==
    IF od[1] * 2 > od[2] THEN OriginDominant
    ELSE IF tr[1] * 10 > tr[2] * 8 THEN Channel
    ELSE Mixed

\* C7: each gantry is labelled from the means of od_ratio and transit_ratio
\* over all its TransitEstimate rows: origin-dominant if mean od_ratio > 0.5,
\* otherwise channel if mean transit_ratio > 0.8, otherwise mixed, both
\* thresholds strict.
C7_LabelFromMeansOverAllRows ==
    TransitReturned =>
        \A g \in result.gantry_function_classification.gantry_details :
            LET od(r) == DefinedRatio(r.od_related_flow, r.total_flow)
                tr(r) == DefinedRatio(r.transit_flow, r.total_flow)
            IN  g.function_type =
                    LabelOfMeans(MeanOverAllRows(g.gantry_code, od),
                                 MeanOverAllRows(g.gantry_code, tr))

RECURSIVE SumOfCounts(_)
SumOfCounts(dist) ==
    IF DOMAIN dist = {} THEN 0
    ELSE LET l == CHOOSE l \in DOMAIN dist : TRUE
         IN  dist[l] + SumOfCounts([k \in DOMAIN dist \ {l} |-> dist[k]])

Classification == result.gantry_function_classification

\* C8: the classification is total and deterministic: every gantry of the
\* TransitEstimate set has exactly one row of gantry_details, carrying one of
\* the three labels, the function_distribution counts sum to the number of
\* distinct gantries, and classifying the same TransitEstimate set again
\* returns the same labels.
C8_ClassificationTotalAndDeterministic ==
    /\ [](TransitReturned =>
            LET gantries == {r.gantry_code : r \in combined_data}
            IN  /\ \A g \in gantries :
                        Cardinality({row \in Classification.gantry_details
                                        : row.gantry_code = g}) = 1
                /\ \A row \in Classification.gantry_details :
                        /\ row.gantry_code \in gantries
                        /\ row.function_type \in FunctionLabels
                /\ DOMAIN Classification.function_distribution \subseteq FunctionLabels
                /\ SumOfCounts(Classification.function_distribution) = Cardinality(gantries))
    /\ [][(TransitReturned /\ combined_data' = combined_data) =>
                Classification' = Classification]_vars

C8_Witness ==
    /\ TransitReturned
    /\ Cardinality(DOMAIN Classification.function_distribution) = 2
    /\ \E row \in Classification.gantry_details : IsNaN(row.od_ratio)

\* C27: the transit estimate has exactly one row per key of the flow
\* aggregate and no other row: a bin with origin or destination trips and no
\* flow row has no estimate, and total_records is the number of flow keys.
C27_OneEstimatePerFlowKey ==
    TransitReturned =>
        /\ {Key(r) : r \in combined_data} = {Key(r) : r \in flow_stats}
        /\ Cardinality(combined_data) = Cardinality(flow_stats)
        /\ result.total_records = Cardinality(flow_stats)

C27_Witness ==
    /\ TransitReturned
    /\ Cardinality(combined_data) = 2
    /\ \E o \in origin_stats : \A r \in combined_data : Key(r) # Key(o)
    /\ \E d \in destination_stats : \E r \in combined_data : Key(r) = Key(d)

----------------------------------------------------------------------------
(* Properties of the facet analyses (checked under Spec)                   *)

FacetMethods ==
    [gantry_origin |-> "analyze_gantry_correlation_detailed",
     gantry_destination |-> "analyze_gantry_destination_correlation",
     toll_square_entry |-> "analyze_toll_square_correlation_detailed",
     toll_square_exit |-> "analyze_toll_square_exit_correlation"]

\* a facet analysis has returned after joining its trips with its flow
FacetReturned(atype) == last_call = FacetMethods[atype] /\ analysis_type = atype

RowKey(r) == <<r.code, r.od_date, r.od_hour>>

\* C1: in each of the four facets the joined frame has exactly one row per
\* (point, date, hour) key of the facet's trips, with the number of trips of
\* that key, and a row whose key has no flow row has flow_total = null.
C1_LeftJoinKeepsEveryTripAggregate ==
    \A atype \in AnalysisTypes :
        FacetReturned(atype) =>
            LET trips == FacetTrips(od_data, atype)
                flow_keys == {FlowKey(f) : f \in FacetFlow(atype)}
            IN  /\ {RowKey(r) : r \in correlation_data} = {RowKey(t) : t \in trips}
                /\ \A r \in correlation_data :
                        /\ Cardinality({x \in correlation_data : RowKey(x) = RowKey(r)}) = 1
                        /\ r.od_count = Cardinality({t \in trips : RowKey(t) = RowKey(r)})
                        /\ RowKey(r) \notin flow_keys => r.flow_total = None

C1_Witness ==
    /\ FacetReturned("toll_square_exit")
    /\ \E r \in correlation_data : r.flow_total = None
    /\ \E r \in correlation_data : notna(r.flow_total)

----------------------------------------------------------------------------
(* Properties of the median-case sampler (checked under SpecSample)        *)

SamplerReturned == last_call = "analyze_median_ratio_cases" /\ result # EmptyDict

\* od_count / flow_total lies within 10% of the median m
WithinTenPercent(r, m) ==
    LET ratio == Flt(r.od_count, Val(r.flow_total))
    IN  FLe(FMul(Flt(9, 10), m), ratio) /\ FLe(ratio, FMul(Flt(11, 10), m))

\* C20: the sampler works on the matched rows only: with m the median of
\* their od_flow_ratio it selects exactly the matched rows with
\* 0.9*m <= od_flow_ratio <= 1.1*m and returns min(10, number selected)
\* distinct rows, each one a selected row.
C20_SamplerTakesMedianCases ==
    SamplerReturned =>
        LET matched == {r \in correlation_data : notna(r.flow_total)}
            m == result.median_ratio
            selected == {r \in matched : WithinTenPercent(r, m)}
            key(r) == <<r.square_code, r.date, r.hour>>
        IN  /\ {key(r) : r \in valid_data} = {key(r) : r \in matched}
            /\ m = SeriesMedian([r \in matched |-> Flt(r.od_count, Val(r.flow_total))])
            /\ result.case_count = Cardinality(selected)
            /\ Cardinality({key(r) : r \in result.sample_cases})
                    = Min(10, Cardinality(selected))
            /\ Cardinality(result.sample_cases) = result.sampled_cases
            /\ result.sampled_cases = Min(10, Cardinality(selected))
            /\ {key(r) : r \in result.sample_cases} \subseteq {key(r) : r \in selected}

C20_Witness ==
    /\ SamplerReturned
    /\ result.case_count = 11
    /\ result.sampled_cases = 10
    /\ \E r \in valid_data : r \notin result.sample_cases /\ r.od_count = 89
    /\ \E r \in result.sample_cases : r.od_count = 90

----------------------------------------------------------------------------
(* Properties of the preprocessing (checked under SpecProcess)             *)

Aggregated(atype) == last_call = "groupby" /\ analysis_type = atype

BasicStatsReturned == last_call = "analyze_od_basic_stats" /\ ~IsRaised(result)

VehicleClasses == {"passenger", "truck", "trailer", "other"}

\* C11: at every key of the trip aggregate of every facet the values of the
\* vehicle-class histogram sum to the key's od_count, and the four class
\* counts of analyze_od_basic_stats sum to the number of valid trips.
C11_HistogramSumsToTripCount ==
    /\ \A atype \in AnalysisTypes : Aggregated(atype) =>
            \A r \in correlation_data :
                /\ DOMAIN r.od_vehicle_dist \subseteq VehicleClasses
                /\ SumOfCounts(r.od_vehicle_dist) = r.od_count
                /\ r.od_count = Cardinality({t \in FacetTrips(od_data, atype) :
                        <<t.code, t.od_date, t.od_hour>> = <<r.code, r.od_date, r.od_hour>>})
    /\ BasicStatsReturned =>
            LET d == result.vehicle_class_distribution
            IN  d.passenger_count + d.truck_count + d.trailer_count + d.other_count
                    = Cardinality(valid_data)

C11_Witness ==
    /\ Aggregated("toll_square_exit")
    /\ \E r \in correlation_data :
            /\ r.od_count = 2
            /\ DOMAIN r.od_vehicle_dist = {"truck", "other"}

\* a trip whose origin point code equals its destination point code
IsPassThrough(pass_id) ==
    \E x \in od_data : x.pass_id = pass_id /\ x.start_point_code = x.end_point_code

\* C12: a trip whose origin point code equals its destination point code is
\* excluded before aggregation: the od_count of every key of every facet
\* counts the other trips only, and no such trip is in the valid trips of
\* analyze_od_basic_stats.
C12_PassThroughExcluded ==
    /\ \A atype \in AnalysisTypes : Aggregated(atype) =>
            \A r \in correlation_data :
                r.od_count = Cardinality({t \in FacetTrips(od_data, atype) :
                    /\ <<t.code, t.od_date, t.od_hour>> = <<r.code, r.od_date, r.od_hour>>
                    /\ ~IsPassThrough(t.pass_id)})
    /\ last_call = "analyze_od_basic_stats" =>
            \A r \in valid_data : r.start_point_code # r.end_point_code

Processed == last_call = "_process_od_data" /\ ~IsRaised(result)

\* the class the first character of a code stands for
ClassOfFirstCharacter(code) ==
    IF code = <<>> THEN "other"
    ELSE CASE code[1] = "k" -> "passenger"
           [] code[1] = "h" -> "truck"
           [] code[1] = "t" -> "trailer"
           [] OTHER -> "other"

\* C14: the vehicle class of a trip is decided by the first character of its
\* vehicle_type code alone: 'k' passenger, 'h' truck, 't' trailer, any other
\* code and the empty string other; both analyzers classify every code alike.
C14_ClassFromFirstCharacter ==
    /\ Processed =>
            \A r \in od_data :
                /\ r.vehicle_class = ClassOfFirstCharacter(Val(r.vehicle_type))
                /\ r.vehicle_class
                        = ODDataAnalyzer_classify_vehicle_type(Val(r.vehicle_type))
    /\ BasicStatsReturned =>
            \A r \in valid_data :
                /\ r.vehicle_class = ClassOfFirstCharacter(Val(r.vehicle_type))
                /\ r.vehicle_class = classify_vehicle_type(Val(r.vehicle_type))

C14_Witness ==
    /\ Processed
    /\ \E r \in od_data : Val(r.vehicle_type) = <<>> /\ r.vehicle_class = "other"
    /\ \E r \in od_data : Val(r.vehicle_type) = <<"t", "3">> /\ r.vehicle_class = "trailer"

\* the facets a trip is in, by the side of the trip they aggregate
FacetsOf(pass_id, atypes) ==
    {atype \in atypes : \E t \in FacetTrips(od_data, atype) : t.pass_id = pass_id}

\* C16: an endpoint with a square code is a toll_square whose point code is
\* the square code, an endpoint without one is a gantry whose point code is
\* the station code, in both analyzers; every trip is in exactly one of the
\* gantry-origin and toll-entry facets and exactly one of the
\* gantry-destination and toll-exit facets.
C16_OnePointTypePerEndpoint ==
    /\ (Processed \/ last_call = "analyze_od_basic_stats") =>
            \A r \in od_data :
                /\ r.start_point_type
                        = (IF notna(r.start_square_code) THEN "toll_square" ELSE "gantry")
                /\ r.start_point_code
                        = (IF notna(r.start_square_code) THEN Val(r.start_square_code)
                           ELSE r.start_station_code)
                /\ r.end_point_type
                        = (IF notna(r.end_square_code) THEN "toll_square" ELSE "gantry")
                /\ r.end_point_code
                        = (IF notna(r.end_square_code) THEN Val(r.end_square_code)
                           ELSE r.end_station_code)
    /\ Processed =>
            \A r \in od_data :
                /\ FacetsOf(r.pass_id, {"gantry_origin", "toll_square_entry"})
                        = {IF notna(r.start_square_code) THEN "toll_square_entry"
                           ELSE "gantry_origin"}
                /\ FacetsOf(r.pass_id, {"gantry_destination", "toll_square_exit"})
                        = {IF notna(r.end_square_code) THEN "toll_square_exit"
                           ELSE "gantry_destination"}

C16_Witness ==
    /\ Processed
    /\ \E r \in od_data :
            /\ r.start_point_type = "toll_square" /\ r.start_point_code = "S1"
            /\ r.end_point_type = "gantry" /\ r.end_point_code = "G1"
    /\ \E r \in od_data :
            r.start_point_type = "gantry" /\ r.end_point_type = "toll_square"

----------------------------------------------------------------------------
(* Properties of the facet analyses within a run of main() (checked under  *)
(* Spec)                                                                   *)

CoverageFacets == {"gantry_origin", "toll_square_entry", "toll_square_exit"}

\* C13: in the gantry-origin, toll-entry and toll-exit facets the reported
\* match rate is (joined rows with a flow_total) / (trip-aggregate rows) and
\* the reported unmatched count is the number of joined rows whose
\* flow_total is null.
C13_CoverageCountsUnmatchedRows ==
    \A atype \in CoverageFacets :
        (FacetReturned(atype) /\ "data_quality_assessment" \in DOMAIN result) =>
            LET q == result.data_quality_assessment
                entry == atype = "toll_square_entry"
                matched == Cardinality({r \in correlation_data : notna(r.flow_total)})
                unmatched == Cardinality({r \in correlation_data : ~notna(r.flow_total)})
            IN  /\ (IF entry THEN q.od_match_rate ELSE q.match_rate)
                        = Flt(matched, Cardinality(correlation_data))
                /\ (IF entry THEN q.unmatched_od_records ELSE q.missing_flow_records)
                        = unmatched


\* C15: a trip whose vehicle_type is null does not fault the run: load_data
\* returns, the trip is kept with vehicle_class = other, and it is counted in
\* the od_count of its key.
C15_NullVehicleTypeIsOther ==
    /\ last_call = "load_data" =>
            /\ ~IsRaised(result)
            /\ \A r \in od_data : ~notna(r.vehicle_type) => r.vehicle_class = "other"
    /\ \A atype \in AnalysisTypes : FacetReturned(atype) =>
            \A t \in FacetTrips(od_data, atype) :
                \E r \in correlation_data :
                    /\ <<r.code, r.od_date, r.od_hour>> = <<t.code, t.od_date, t.od_hour>>
                    /\ r.od_count >= 1


\* the result variables of main(), one per analysis it calls
ResultNames ==
    {"gantry_origin_results", "gantry_destination_results", "gantry_transit_results",
     "toll_square_entry_results", "toll_square_exit_results",
     "toll_square_balance_results", "toll_square_median_entry",
     "toll_square_median_exit"}

EmptyInput(atype) == FacetTrips(od_data, atype) = {} \/ FacetFlow(atype) = {}

NoneMatched == correlation_data # {} /\ \A r \in correlation_data : ~notna(r.flow_total)

\* C19: when no row of a facet's joined frame has a flow_total the
\* summarizer returns the empty dict and the facet returns without raising:
\* its result holds no statistics, only the coverage assessment in the
\* facets that report one.
C19_NoMatchYieldsEmptySummary ==
    \A atype \in AnalysisTypes :
        (FacetReturned(atype) /\ NoneMatched) =>
            /\ ~IsRaised(result)
            /\ valid_data = {}
            /\ IF atype = "gantry_destination" THEN result = EmptyDict
               ELSE DOMAIN result = {"data_quality_assessment"}
            /\ \A q \in DOMAIN result :
                    DOMAIN result[q] \cap {"normal_ratio", "mean", "median"} = {}

C19_Witness ==
    /\ FacetReturned("toll_square_exit")
    /\ NoneMatched
    /\ result.data_quality_assessment.match_rate = Zero
    /\ result.data_quality_assessment.missing_flow_records = 1

\* C22: the result of the toll-square entry analysis and of the toll-square
\* exit analysis holds the summary of the row flags: normal_records and
\* abnormal_records add up to the number of matched rows and normal_ratio is
\* normal_records over the number of matched rows.
C22_TollResultHoldsFlagSummary ==
    \A atype \in {"toll_square_entry", "toll_square_exit"} :
        (FacetReturned(atype) /\ valid_data # {}) =>
            /\ "data_quality_assessment" \in DOMAIN result
            /\ {"normal_records", "abnormal_records", "normal_ratio"}
                    \subseteq DOMAIN result.data_quality_assessment
            /\ LET q == result.data_quality_assessment
               IN  /\ q.normal_records + q.abnormal_records = Cardinality(valid_data)
                   /\ q.normal_ratio = Flt(q.normal_records, Cardinality(valid_data))

TransitStageReturned == last_call = "analyze_gantry_transit_flow" /\ ~IsRaised(result)

\* the trips of self.od_data that leave from (side = "start") or arrive at
\* (side = "end") a gantry in the bin of a row
TripsAtGantry(row, side) ==
    IF side = "start"
    THEN {t \in od_data : /\ ~notna(t.start_square_code)
                          /\ t.start_station_code = row.gantry_code
                          /\ t.start_time.date = row.date
                          /\ t.start_time.hour = row.hour}
    ELSE {t \in od_data : /\ ~notna(t.end_square_code)
                          /\ t.end_station_code = row.gantry_code
                          /\ t.end_time.date = row.date
                          /\ t.end_time.hour = row.hour}

\* C24: in every row of the transit estimate origin_od_count is the number of
\* trips leaving from the gantry in the bin of their start time and
\* destination_od_count the number of trips arriving at the gantry in the
\* bin of their end time, 0 when there is none.
C24_OdCountsPerSideAndBin ==
    TransitStageReturned =>
        \A row \in combined_data :
            /\ row.origin_od_count = Cardinality(TripsAtGantry(row, "start"))
            /\ row.destination_od_count = Cardinality(TripsAtGantry(row, "end"))

C24_Witness ==
    /\ TransitStageReturned
    /\ \E row \in combined_data : row.origin_od_count = 1 /\ row.destination_od_count = 0
    /\ \E row \in combined_data : row.origin_od_count = 0 /\ row.destination_od_count = 1

\* C28: in every facet the od_count of the keys of a point add up to the
\* number of trips the facet selected at that point, the od_count of all
\* keys to the number of trips the facet selected, and the counts of
\* _get_gantry_od_stats to the number of gantry trips of its side.
C28_AggregationConservesTrips ==
    /\ \A atype \in AnalysisTypes : FacetReturned(atype) =>
            LET trips == FacetTrips(od_data, atype)
            IN  /\ SumCol(correlation_data, "od_count") = Cardinality(trips)
                /\ \A c \in {t.code : t \in trips} \cup {r.code : r \in correlation_data} :
                        SumCol({r \in correlation_data : r.code = c}, "od_count")
                            = Cardinality({t \in trips : t.code = c})
    /\ TransitStageReturned =>
            /\ SumCol(origin_stats, "od_count")
                    = Cardinality({t \in od_data : t.start_point_type = "gantry"})
            /\ SumCol(destination_stats, "od_count")
                    = Cardinality({t \in od_data : t.end_point_type = "gantry"})

C28_Witness ==
    /\ FacetReturned("toll_square_exit")
    /\ Cardinality(correlation_data) = 2
    /\ Cardinality({r.code : r \in correlation_data}) = 1
    /\ SumCol(correlation_data, "od_count") = 2

----------------------------------------------------------------------------
(* Properties of the test's run on generated data (checked under SpecMock) *)

\* C25: on the generated data, with no off-ramp flow loaded, the gantry
\* analysis and the toll-square analysis return without raising, leave the
\* off-ramp attribute alone, and return total_records and
\* correlation_coefficient when a row of theirs is matched.
C25_MockSequenceCompletes ==
    /\ offramp_flow_data = Unassigned
    /\ last_call \in {"analyze_gantry_correlation_detailed",
                      "analyze_toll_square_correlation_detailed"} =>
            /\ ~IsRaised(result)
            /\ valid_data # {} =>
                    {"total_records", "correlation_coefficient"} \subseteq DOMAIN result

----------------------------------------------------------------------------
(* Properties of the repeated sampler (checked under SpecRepeat)           *)

----------------------------------------------------------------------------
(* Properties of the stages called in any order (checked under SpecStages) *)

\* C26: every call of a stage leaves the trip dataset and the three flow
\* datasets as load_data left them, and a stage called again after any other
\* stages returns what it returned when it was the first stage called
C26_StagesLeaveDataUnchanged ==
    [][/\ od_data' = od_data
       /\ gantry_flow_data' = gantry_flow_data
       /\ onramp_flow_data' = onramp_flow_data
       /\ offramp_flow_data' = offramp_flow_data
       /\ (seen_result # EmptyDict /\ last_call' = seen_result.stage)
            => result' = seen_result.returned]_vars

\* the exit sampler was called first, the transit stage (which writes
\* end_point_type again) since, and the exit sampler once more, with matched
\* rows to sample
C26_Witness ==
    /\ seen_result # EmptyDict
    /\ seen_result.stage = "analyze_median_ratio_cases('exit')"
    /\ last_call = seen_result.stage
    /\ combined_data # NoFrame
    /\ result # EmptyDict
    /\ result = seen_result.returned

----------------------------------------------------------------------------
(* Properties of run_full_analysis (checked under SpecFull)                *)

\* C29: the stages are called in the order connect, load trips, load flows,
\* basic statistics, anomaly detection, origin correlation, consistency,
\* visualization, report, export, each after the one before it has returned;
\* a stage finds the derived data it reads (start_point_code and
\* valid_od_data from the basic statistics, travel_time_hours from the
\* anomaly detection); and after a stage has raised, the only step is the
\* except clause, which raises the same exception to the caller
C29_StagesInOrderAndFaultsRaised ==
    [][LET order == <<"run_full_analysis", "connect_database", "load_od_data",
                      "load_flow_data", "analyze_od_basic_stats", "detect_od_anomalies",
                      "analyze_origin_correlation", "analyze_od_flow_consistency",
                      "create_visualizations", "generate_report", "export_anomaly_data">>
       IN  /\ \A k \in 2..Len(order) :
                last_call' = order[k] => (last_call = order[k - 1] /\ ~IsRaised(result))
           /\ last_call' = "detect_od_anomalies"
                => {"start_point_code", "end_point_code"} \subseteq od_columns
           /\ last_call' = "analyze_origin_correlation" => valid_data # None
           /\ last_call' = "create_visualizations" => "travel_time_hours" \in od_columns
           /\ IsRaised(result) => (last_call' = "except" /\ result' = result)]_vars

\* a run that went through every stage on data with a valid trip
C29_Witness ==
    /\ last_call = "return"
    /\ main_locals = {"stats", "anomalies", "correlation_analysis", "consistency"}
    /\ valid_data # None
    /\ Val(valid_data) # {}
    /\ "travel_time_hours" \in od_columns

\* C30: with gantry and on-ramp flow rows loaded, the dict that
\* analyze_origin_correlation returns has a gantry_correlation entry if a valid
\* trip starts at a gantry and a toll_square_correlation entry if a valid trip
\* starts at a toll square
C30_OriginCorrelationHasBothEntries ==
    (/\ last_call = "analyze_origin_correlation"
     /\ ~IsRaised(result)
     /\ Val(gantry_flow_data) # {}
     /\ \E f \in Val(toll_flow_data) : f.flow_type = "onramp")
    => /\ (\E r \in Val(valid_data) : r.start_point_type = "gantry")
            => "gantry_correlation" \in DOMAIN result
       /\ (\E r \in Val(valid_data) : r.start_point_type = "toll_square")
            => "toll_square_correlation" \in DOMAIN result

====
